---- MODULE Spec2Model ----
(***************************************************************************)
(* A model of multiPointSparse.py: the partition of one global             *)
(* communicator into processor sets and members (createCommunicators,      *)
(* createGroups) and the collective evaluation protocol (obj, sens).       *)
(*                                                                         *)
(* Every process of the communicator runs the same script, so a set-up     *)
(* call is one action that every rank takes; what differs between ranks    *)
(* (the rank itself, what the user callbacks return) is kept per rank.     *)
(* In obj and sens each rank runs its callbacks in a step of its own, and  *)
(* a collective operation of the transport is a step that is taken only    *)
(* when every rank has entered it.                                         *)
(***************************************************************************)
EXTENDS Integers, Sequences, FiniteSets, TLC

\* ------------------------------------------------------------------ bounds
MaxProcs == 3      \* largest communicator size tried
MaxMembers == 2    \* largest nMembers passed to addProcessorSet
MaxSize == 2       \* largest entry of a memberSizes list
EvalProcs == 2     \* largest communicator size on which obj and sens are run

SetNames == {"cruise", "maneuver"}

VARIABLES
    gsize,       \* gcomm.size
    pSet,        \* self.pSet: the procSet objects, in insertion order
    dummyPSet,   \* self.dummyPSet
    raised,      \* the exception the last API call raised, "" when it returned
    ccStatus,    \* per rank: how far createCommunicators got
    setFlags,    \* per rank: self.setFlags
    setRank,     \* per rank: the rank in setComm
    groupFlags,  \* per rank: groupFlags of the rank's set
    ptID,        \* per rank: groupID of the rank's set
    comm,        \* per rank: the global ranks of the member communicator
    pSetRoot,    \* self.pSetRoot
    nSplit,      \* per rank: the Split calls made on the rank so far
    cgOut,       \* what the last call gave if it was createGroups, per rank
    lastCall,    \* the last API call and its arguments
    optProb,     \* self.optProb
    conKeys,     \* self.conKeys
    userObjCon,  \* self.userObjCon
    x,           \* the design point the current obj or sens call is made at
    pc,          \* per rank: where the rank is in the current obj or sens call
    res,         \* per rank: the local dictionary res of the current call
    commPattern, \* per rank: self.commPattern
    allFuncs,    \* per rank: allFuncs (obj) or funcSens (sens) of the call
    funcs,       \* per rank: self.funcs
    keySets,     \* per rank: self.inputKeys, outputKeys, passThroughKeys
    ret,         \* per rank: what the last obj or sens call returned, and
                 \* what the rank had computed before the final broadcasts
    log          \* per rank: the collectives entered in the current call

topoVars == <<gsize, pSet, dummyPSet, raised, ccStatus, setFlags, setRank,
              groupFlags, ptID, comm, pSetRoot, nSplit, cgOut, lastCall>>

apiVars == <<optProb, conKeys, userObjCon>>
callVars == <<x, pc, res, commPattern, allFuncs, funcs, keySets, ret, log>>
evalVars == <<apiVars, callVars>>
vars == <<topoVars, evalVars>>

Ranks == 0 .. (gsize - 1)

\* ----------------------------------------------------------------- helpers
RECURSIVE SumSeq(_)
SumSeq(s) == IF s = <<>> THEN 0 ELSE Head(s) + SumSeq(Tail(s))

\* The function f as a table: every value is computed once, when the table
\* is made, and not again each time it is looked up.
Table(f) == f @@ <<>>

\* numpy.ones(nMembers) * memberSizes[0]
Ones(n, v) == [i \in 1 .. n |-> v]

\* The cumulative size array: cum[0] = 0, cum[i+1] = cum[i] + sizes[i]
\* (sizes is 1-based here, the array 0-based as in the source).
CumSum(sizes) == [i \in 0 .. Len(sizes) |-> SumSeq(SubSeq(sizes, 1, i))]

\* rank >= cum[i] and rank < cum[i+1]
InIntervalClosed(rank, cum, i) == rank >= cum[i] /\ rank <= cum[i + 1]
InInterval(rank, cum, i) == rank >= cum[i] /\ rank < cum[i + 1]

\* The key a "for i: if match: key = i" loop leaves: the last match, and -1
\* when the loop never assigns (the name stays unbound, or None).
LastMatch(rank, cum, n) ==
    LET hits == {i \in 0 .. (n - 1) : InInterval(rank, cum, i)}
    IN  IF hits = {} THEN -1 ELSE CHOOSE i \in hits : \A j \in hits : j <= i

\* comm.Split(color) with the default key: the ranks of the parent that gave
\* the same color, ordered by their rank in the parent.
SplitGroup(color, r) == {q \in DOMAIN color : color[q] = color[r]}
SplitRank(color, r) == Cardinality({q \in SplitGroup(color, r) : q < r})

\* procSet.__init__
NewProcSet(setName, nMembers, memberSizes, setID) ==
    [setName |-> setName, nMembers |-> nMembers, memberSizes |-> memberSizes,
     nProc |-> SumSeq(memberSizes), setID |-> setID,
     objFunc |-> <<>>, sensFunc |-> <<>>]

PSetNames == {pSet[i].setName : i \in 1 .. Len(pSet)}
Declared == PSetNames \cup dummyPSet
PSetOf(name) == CHOOSE i \in 1 .. Len(pSet) : pSet[i].setName = name

\* ------------------------------------------------------ the argument sets
SizeLists == UNION {[1 .. n -> 0 .. MaxSize] : n \in 0 .. MaxMembers}

NoFlags == [name \in {} |-> FALSE]
NoGroupFlags == [i \in {} |-> FALSE]

\* The value of cgOut while the last call was not createGroups
CgNone ==
    [status |-> "none", sizes |-> <<>>,
     key |-> [r \in Ranks |-> -1],
     flags |-> [r \in Ranks |-> NoGroupFlags],
     nSplit |-> [r \in Ranks |-> 0]]

Call(op, setName, nMembers, nSizes) ==
    [op |-> op, setName |-> setName, nMembers |-> nMembers, nSizes |-> nSizes]

\* The names addProcessorSet may still be called with: names are unique, and
\* all procSets are added before createCommunicators is called.
FreeNames ==
    IF \A r \in Ranks : ccStatus[r] = "none" THEN SetNames \ Declared ELSE {}

\* --------------------------------------------------------- addProcessorSet
\* len(memberSizes) != nMembers
LengthMismatchLonger(nMembers, memberSizes) == Len(memberSizes) > nMembers
LengthMismatch(nMembers, memberSizes) == Len(memberSizes) # nMembers

AddProcessorSet(setName, nMembers, memberSizes) ==
    /\ setName \in FreeNames
    /\ IF nMembers = 0
       THEN /\ dummyPSet' = dummyPSet \cup {setName}
            /\ raised' = ""
            /\ UNCHANGED pSet
       ELSE IF Len(memberSizes) = 1
       THEN /\ pSet' = Append(pSet, NewProcSet(setName, nMembers,
                                  Ones(nMembers, memberSizes[1]), Len(pSet)))
            /\ raised' = ""
            /\ UNCHANGED dummyPSet
       ELSE IF LengthMismatch(nMembers, memberSizes)
       THEN /\ raised' = "MPError: memberSizes list is not the correct length"
            /\ UNCHANGED <<pSet, dummyPSet>>
       ELSE /\ pSet' = Append(pSet, NewProcSet(setName, nMembers,
                                  memberSizes, Len(pSet)))
            /\ raised' = ""
            /\ UNCHANGED dummyPSet
    /\ lastCall' = Call("addProcessorSet", setName, nMembers, Len(memberSizes))
    /\ cgOut' = CgNone
    /\ UNCHANGED evalVars
    /\ UNCHANGED <<gsize, ccStatus, setFlags, setRank, groupFlags, ptID, comm,
                   pSetRoot, nSplit>>

\* ----------------------------------------------------- createCommunicators
\* nProc: the total number of required procs
NProcTotal == SumSeq([i \in 1 .. Len(pSet) |-> pSet[i].nProc])

\* setSizes[setID] = nProc, and its cumulative array
SetSizes ==
    [k \in 1 .. Len(pSet) |->
        pSet[CHOOSE i \in 1 .. Len(pSet) : pSet[i].setID = k - 1].nProc]
CumSets == CumSum(SetSizes)

\* The test of the member_key loop for the i-th procSet on rank r
SetFlagOf(r, i) == InInterval(r, CumSets, pSet[i].setID)

\* The procSet (its place in pSet) whose test held last on rank r, 0 if none
MySet(r) ==
    LET hits == {i \in 1 .. Len(pSet) : SetFlagOf(r, i)}
    IN  IF hits = {} THEN 0 ELSE CHOOSE i \in hits : \A j \in hits : j <= i

\* memberKey as the loop leaves it on rank r, -1 when it stays unbound
MemberKey(r) == IF MySet(r) = 0 THEN -1 ELSE pSet[MySet(r)].setID
MemberKeys == [r \in Ranks |-> MemberKey(r)]

\* setFlags: one entry per procSet, then False for every dummy procSet
SetFlagsNoDummy(r) == [name \in PSetNames |-> SetFlagOf(r, PSetOf(name))]
SetFlagsOf(r) ==
    [name \in PSetNames \cup dummyPSet |->
        IF name \in dummyPSet THEN FALSE ELSE SetFlagOf(r, PSetOf(name))]

\* procSet.createCommunicators: m_key of a process of rank srank in the set's
\* communicator, -1 for None
MKey(ps, srank) == LastMatch(srank, CumSum(ps.memberSizes), ps.nMembers)

\* numpy.zeros(nMembers, bool) with groupFlags[m_key] = True
GroupFlagsOf(ps, mkey) == [i \in 0 .. (ps.nMembers - 1) |-> i = mkey]

\* nProc < self.gcomm.size or nProc > self.gcomm.size
SizeMismatchOnlyLess == NProcTotal < gsize
SizeMismatch == NProcTotal < gsize \/ NProcTotal > gsize

\* What createCommunicators computes on every rank once the sizes are accepted
CcResult ==
    LET memberKey == Table(MemberKeys)
        \* setComm = self.gcomm.Split(memberKey): the rank in setComm
        srank == Table([r \in Ranks |-> SplitRank(memberKey, r)])
        \* self.pSet[key].createCommunicators() on the rank's own set
        mkey == Table([r \in Ranks |->
                    IF memberKey[r] = -1 THEN -1
                    ELSE MKey(pSet[MySet(r)], srank[r])])
        status == Table([r \in Ranks |->
                    IF memberKey[r] = -1 THEN "UnboundLocalError"
                    ELSE IF mkey[r] = -1 THEN "TypeError"
                    ELSE "done"])
    IN  [status |-> status,
         nSplit |-> [r \in Ranks |->
                IF memberKey[r] = -1 THEN 0
                ELSE IF mkey[r] = -1 THEN 1
                ELSE 2],
         setFlags |-> [r \in Ranks |->
                IF status[r] = "done" THEN SetFlagsOf(r) ELSE NoFlags],
         setRank |-> [r \in Ranks |->
                IF memberKey[r] = -1 THEN -1 ELSE srank[r]],
         groupFlags |-> [r \in Ranks |->
                IF status[r] = "done"
                THEN GroupFlagsOf(pSet[MySet(r)], mkey[r])
                ELSE NoGroupFlags],
         ptID |-> [r \in Ranks |->
                IF status[r] = "done" THEN mkey[r] ELSE -1],
         \* self.comm = self.gcomm.Split(m_key) on the set's communicator
         comm |-> [r \in Ranks |->
                IF status[r] = "done"
                THEN {q \in SplitGroup(memberKey, r) : mkey[q] = mkey[r]}
                ELSE {}],
         pSetRoot |-> [name \in PSetNames |->
                CumSets[pSet[PSetOf(name)].setID]]]

CreateCommunicators ==
    /\ \A r \in Ranks : ccStatus[r] = "none"
    /\ lastCall' = Call("createCommunicators", "", 0, 0)
    /\ cgOut' = CgNone
    /\ UNCHANGED <<gsize, pSet, dummyPSet>>
    /\ UNCHANGED evalVars
    /\ IF SizeMismatch
       THEN /\ raised' = "MPError: must be called with EXACTLY nProc processors"
            /\ UNCHANGED <<ccStatus, setFlags, setRank, groupFlags, ptID, comm,
                           pSetRoot, nSplit>>
       ELSE LET cc == CcResult
            IN  /\ raised' = ""
                /\ ccStatus' = cc.status
                /\ nSplit' = [r \in Ranks |-> nSplit[r] + cc.nSplit[r]]
                /\ setFlags' = cc.setFlags
                /\ setRank' = cc.setRank
                /\ groupFlags' = cc.groupFlags
                /\ ptID' = cc.ptID
                /\ comm' = cc.comm
                /\ pSetRoot' = cc.pSetRoot

\* ------------------------------------------------------------ createGroups
\* createGroups(sizes, gcomm) as every rank runs it
CreateGroupsResult(sizes) ==
    IF ~(gsize = SumSeq(sizes))
    THEN [CgNone EXCEPT !.status = "MPError: Cannot split comm",
                        !.sizes = sizes]
    ELSE LET key == [r \in Ranks |->
                        LastMatch(r, CumSum(sizes), Len(sizes))]
         IN  [status |-> "done", sizes |-> sizes, key |-> key,
              flags |-> [r \in Ranks |->
                  IF key[r] = -1 THEN NoGroupFlags
                  ELSE [i \in 0 .. (Len(sizes) - 1) |-> i = key[r]]],
              nSplit |-> [r \in Ranks |-> IF key[r] = -1 THEN 0 ELSE 1]]

\* createGroups is a module-level function that reads nothing of the
\* multiPointSparse object, so it is tried beside a fresh object only.
CreateGroups(sizes) ==
    /\ Declared = {}
    /\ cgOut' = CreateGroupsResult(sizes)
    /\ lastCall' = Call("createGroups", "", 0, Len(sizes))
    /\ UNCHANGED evalVars
    /\ UNCHANGED <<gsize, pSet, dummyPSet, raised, ccStatus, setFlags, setRank,
                   groupFlags, ptID, comm, pSetRoot, nSplit>>

\* ------------------------------------------------- the evaluation state
FuncKeys == {"a", "b"}
\* The order in which a dictionary lists its keys
KeyOrder == <<"a", "b", "fail">>

EmptyDict == [k \in {} |-> 0]
NoKeys == [set |-> FALSE, input |-> {}, output |-> {}, pass |-> {}]
NoPattern == [built |-> FALSE, keys |-> <<>>, owner |-> EmptyDict]
NoFuncs == [set |-> FALSE, d |-> EmptyDict]
NoRet == [set |-> FALSE, local |-> 0, obj |-> 0, con |-> 0, fail |-> FALSE]
NoOptProb == [name |-> "", constraints |-> EmptyDict, variables |-> {}]

\* multiPointSparse.__init__: the fields obj and sens work on
InitEvalVars ==
    /\ optProb = NoOptProb
    /\ conKeys = [set |-> FALSE, keys |-> {}]
    /\ userObjCon = ""
    /\ x = 0
    /\ pc = [r \in Ranks |-> "idle"]
    /\ res = [r \in Ranks |-> EmptyDict]
    /\ commPattern = [r \in Ranks |-> NoPattern]
    /\ allFuncs = [r \in Ranks |-> EmptyDict]
    /\ funcs = [r \in Ranks |-> NoFuncs]
    /\ keySets = [r \in Ranks |-> NoKeys]
    /\ ret = [r \in Ranks |-> NoRet]
    /\ log = [r \in Ranks |-> <<>>]

\* ------------------------------------------------------------ the topology
\* The size lists createGroups is tried with
FreshSizeLists == IF Declared = {} THEN SizeLists ELSE {}

InitTopology ==
    /\ gsize \in 1 .. MaxProcs
    /\ pSet = <<>>
    /\ dummyPSet = {}
    /\ raised = ""
    /\ ccStatus = [r \in Ranks |-> "none"]
    /\ setFlags = [r \in Ranks |-> NoFlags]
    /\ setRank = [r \in Ranks |-> -1]
    /\ groupFlags = [r \in Ranks |-> NoGroupFlags]
    /\ ptID = [r \in Ranks |-> -1]
    /\ comm = [r \in Ranks |-> {}]
    /\ pSetRoot = NoFlags
    /\ nSplit = [r \in Ranks |-> 0]
    /\ cgOut = CgNone
    /\ lastCall = Call("", "", 0, 0)
    /\ InitEvalVars

NextTopology ==
    \/ \E setName \in FreeNames, nMembers \in 0 .. MaxMembers,
          memberSizes \in SizeLists :
            AddProcessorSet(setName, nMembers, memberSizes)
    \/ CreateCommunicators
    \/ \E sizes \in FreshSizeLists : CreateGroups(sizes)

SpecTopology == InitTopology /\ [][NextTopology]_vars

\* ------------------------------------------------------- user callbacks
\* A callback is opaque.  What it returns on rank r is either None or a
\* dictionary over some of the functional names, with or without a 'fail'
\* entry; the value of a functional is the mark of the rank that produced
\* it and of the design point it was produced at, so that the origin of
\* every unified value can be read off.
DesignPoints == {0, 1}
Mark(r, xv) == 10 * xv + r + 1
FailChoices == {"absent", "true", "false"}
Dict(r, xv, keys, f) ==
    [k \in keys \cup (IF f = "absent" THEN {} ELSE {"fail"}) |->
        IF k = "fail" THEN (f = "true") ELSE Mark(r, xv)]
Returns(r, xv) ==
    {[none |-> TRUE, d |-> EmptyDict]} \cup
    {[none |-> FALSE, d |-> Dict(r, xv, keys, f)] :
        keys \in SUBSET FuncKeys, f \in FailChoices}

\* The combination function is opaque too: what it gives on a rank is one of
\* the pairs (fObj, fCon) below, and what the complex-step loop of sens
\* assembles from it is one of the same pairs (gobj, gcon).
Locals == {1, 2}
LocalPair(v) == [obj |-> v, con |-> 10 + v]

FuncHandles == {"f", "notAFunction"}
\* isinstance(func, types.FunctionType)
IsFunction(h) == h # "notAFunction"

\* The optimisation problems setOptProb is called with: the constraints with
\* their linear flag, the blocks they depend on and their size, and the
\* design-variable blocks.
Con(linear, wrt, ncon) == [linear |-> linear, wrt |-> wrt, ncon |-> ncon]
OptProbs ==
    {[name |-> "p",
      constraints |-> [c \in {"a", "c", "lin"} |->
                          IF c = "lin" THEN Con(TRUE, {"x"}, 1)
                          ELSE Con(FALSE, {"x", "y"}, 1)],
      variables |-> {"x", "y"}]}

\* ------------------------------------------------------ dictionary helpers
\* d.update(tmp)
Update(d, tmp) ==
    [k \in DOMAIN d \cup DOMAIN tmp |-> IF k \in DOMAIN tmp THEN tmp[k] ELSE d[k]]

\* list(d.keys())
KeyList(d) == SelectSeq(KeyOrder, LAMBDA k : k \in DOMAIN d)

Created == \A r \in Ranks : ccStatus[r] = "done"

\* The procSet (its place in pSet) whose setFlags entry is true on rank r;
\* the loop keeps the res of the last one. 0 when there is none.
FlaggedSet(r) ==
    LET hits == {i \in 1 .. Len(pSet) : setFlags[r][pSet[i].setName]}
    IN  IF hits = {} THEN 0 ELSE CHOOSE i \in hits : \A j \in hits : j <= i

\* The callbacks rank r runs in obj ("obj") or in sens ("sens")
CallbacksOf(kind, r) ==
    IF FlaggedSet(r) = 0 THEN <<>>
    ELSE IF kind = "obj" THEN pSet[FlaggedSet(r)].objFunc
    ELSE pSet[FlaggedSet(r)].sensFunc

\* What the callbacks of rank r may return in one call: one value per
\* callback.
Outs(kind, r, xv) == [1 .. Len(CallbacksOf(kind, r)) -> Returns(r, xv)]

\* res = {}; for func in ...: tmp = func(x); res.update(tmp)
RECURSIVE Merge(_, _)
Merge(d, outs) ==
    IF outs = <<>> THEN d ELSE Merge(Update(d, Head(outs).d), Tail(outs))

\* assert tmp is not None
AnyNoneOrEmpty(outs) ==
    \E i \in 1 .. Len(outs) : outs[i].none \/ outs[i].d = EmptyDict
AnyNone(outs) == \E i \in 1 .. Len(outs) : outs[i].none

\* if 'fail' not in res: res['fail'] = False
LocalRes(outs) ==
    LET m == Merge(EmptyDict, outs)
    IN  IF "fail" \in DOMAIN m THEN m ELSE Update(m, [k \in {"fail"} |-> FALSE])

Exceptions == {"AssertionError", "KeyError", "TypeError", "UnboundLocalError"}
Entry(op, root, key) == [op |-> op, root |-> root, key |-> key]
\* A collective completes once every process of the communicator has
\* entered it
AnyAt(where) == \E r \in Ranks : pc[r] = where
AllAt(where) == \A r \in Ranks : pc[r] = where

\* ------------------------------------------------ obj: the local callbacks
\* The ranks run the local part of a call one after the other, rank 0
\* first; what a rank does there touches nothing the others read.  The call
\* that starts forgets what the previous one returned and logged.  Every
\* rank is called at the same design point.
Starts(kind, r) ==
    /\ pc[r] = "idle"
    /\ raised = ""
    /\ IF r = 0 THEN AllAt("idle")
       ELSE pc[r - 1] # "idle" /\ lastCall.op = kind
    /\ Created

\* if self.commPattern is None
NoPatternEver(r) == TRUE
NoPatternYet(r) == ~commPattern[r].built

StartRanks(kind) == {r \in Ranks : Starts(kind, r)}
\* sens is called at the design point of the obj call before it
PointsFor(kind, r) == IF r = 0 /\ kind = "obj" THEN DesignPoints ELSE {x}

\* Lines 515-527 on rank r, and the test of line 529.
ObjLocal(r, xv, outs) ==
    /\ Starts("obj", r)
    /\ x' = xv
    /\ lastCall' = Call("obj", "", 0, 0)
    /\ pc' = [pc EXCEPT ![r] =
            IF FlaggedSet(r) = 0 THEN "UnboundLocalError"
            ELSE IF AnyNone(outs) THEN "AssertionError"
            ELSE IF NoPatternYet(r) THEN "allgather"
            ELSE "bcast"]
    /\ res' = [res EXCEPT ![r] =
            IF pc'[r] \in Exceptions THEN EmptyDict ELSE LocalRes(outs)]
    /\ allFuncs' = IF r = 0 THEN [q \in Ranks |-> EmptyDict] ELSE allFuncs
    /\ ret' = IF r = 0 THEN [q \in Ranks |-> NoRet] ELSE ret
    /\ log' = IF r = 0 THEN [q \in Ranks |-> <<>>] ELSE log
    /\ UNCHANGED <<gsize, pSet, dummyPSet, raised, ccStatus, setFlags, setRank,
                   groupFlags, ptID, comm, pSetRoot, nSplit, cgOut>>
    /\ UNCHANGED <<apiVars, commPattern, funcs, keySets>>

\* ------------------------------------------ obj: the communication pattern
\* if key not in self.commPattern: if key != 'fail':
\*     self.commPattern[key] = i
AddKeyOverwrite(pat, k, i) ==
    IF k # "fail"
    THEN [built |-> TRUE,
          keys |-> IF k \in DOMAIN pat.owner THEN pat.keys
                   ELSE Append(pat.keys, k),
          owner |-> Update(pat.owner, [kk \in {k} |-> i])]
    ELSE pat
AddKey(pat, k, i) ==
    IF k \notin DOMAIN pat.owner /\ k # "fail"
    THEN [built |-> TRUE, keys |-> Append(pat.keys, k),
          owner |-> Update(pat.owner, [kk \in {k} |-> i])]
    ELSE pat

\* for key in allKeys[i]
RECURSIVE AddKeys(_, _, _)
AddKeys(pat, keys, i) ==
    IF keys = <<>> THEN pat
    ELSE AddKeys(AddKey(pat, Head(keys), i), Tail(keys), i)

\* for i in range(len(allKeys)): the walk over the ranks, from rank i on
RECURSIVE Walk(_, _, _)
Walk(pat, allKeys, i) ==
    IF i \notin DOMAIN allKeys THEN pat
    ELSE Walk(AddKeys(pat, allKeys[i], i), allKeys, i + 1)

\* self.commPattern = dict() and the two loops
Discover(allKeys) ==
    Walk([built |-> TRUE, keys |-> <<>>, owner |-> EmptyDict], allKeys, 0)

\* Lines 529-544: the all-gather completes once every rank has entered it.
ObjDiscover ==
    /\ AllAt("allgather")
    /\ LET allKeys == [i \in Ranks |-> KeyList(res[i])]
       IN  commPattern' = [r \in Ranks |-> Discover(allKeys)]
    /\ pc' = [r \in Ranks |-> "bcast"]
    /\ log' = [r \in Ranks |-> Append(log[r], Entry("allgather", -1, ""))]
    /\ UNCHANGED <<topoVars, apiVars, x, res, allFuncs, funcs, keySets, ret>>

\* --------------------------------------------- the broadcast of the keys
\* The loop "for key in self.commPattern" of obj (546-554) and sens
\* (605-613).  Rank r walks its own commPattern; its i-th broadcast has the
\* root commPattern[key].  A broadcast completes once every rank has entered
\* it with the same root; the root reads res[key] before it enters.
NumKeys(r) == Len(commPattern[r].keys)
KeyAt(r, i) == commPattern[r].keys[i]
RootAtOwn(r, i) == r
RootAt(r, i) == commPattern[r].owner[KeyAt(r, i)]

\* res[key] raises KeyError on the root that does not hold the key
RaisesAt(r, i) ==
    i <= NumKeys(r) /\ RootAt(r, i) = r /\ KeyAt(r, i) \notin DOMAIN res[r]

\* The i-th broadcast completes
Matched(i) ==
    \A r \in Ranks :
        i <= NumKeys(r) /\ RootAt(r, i) = RootAt(0, i) /\ ~RaisesAt(r, i)

\* The number of broadcasts that complete
Progress ==
    LET n == NumKeys(0)
        ok == {j \in 0 .. n : \A i \in 1 .. j : Matched(i)}
    IN  CHOOSE j \in ok : \A m \in ok : m <= j

\* What the root sends in the i-th broadcast
Payload(i) == LET root == RootAt(0, i) IN res[root][KeyAt(root, i)]

\* tmp of the i-th broadcast on rank r: what allFuncs[key] is set to
UnifiedOwnFirst(r, i) ==
    IF KeyAt(r, i) \in DOMAIN res[r] THEN res[r][KeyAt(r, i)] ELSE Payload(i)
Unified(r, i) == Payload(i)

\* The broadcasts rank r enters: those that complete and, unless it is the
\* root that raised, the first one that does not
Entered(r) ==
    IF Progress = NumKeys(r) \/ RaisesAt(r, Progress + 1)
    THEN Progress ELSE Progress + 1

Unify ==
    /\ AllAt("bcast")
    /\ pc' = [r \in Ranks |->
            IF Progress = NumKeys(r) THEN "allreduce"
            ELSE IF RaisesAt(r, Progress + 1) THEN "KeyError"
            ELSE "inBcast"]
    /\ allFuncs' = [r \in Ranks |->
            [k \in {KeyAt(r, i) : i \in 1 .. Progress} |->
                Unified(r, CHOOSE i \in 1 .. Progress : KeyAt(r, i) = k)]]
    /\ log' = [r \in Ranks |->
            log[r] \o [i \in 1 .. Entered(r) |->
                          Entry("bcast", RootAt(r, i), KeyAt(r, i))]]
    /\ UNCHANGED <<topoVars, apiVars, x, res, commPattern, funcs, keySets, ret>>

ObjUnify == lastCall.op = "obj" /\ Unify

\* ------------------------------------------------------- obj: the results
\* self.gcomm.allreduce(res['fail'], op=MPI.LOR)
AllReduceOwn == [r \in Ranks |-> res[r]["fail"]]
AllReduceRoot == [r \in Ranks |-> res[0]["fail"]]
AllReduceLOR == [r \in Ranks |-> \E q \in Ranks : res[q]["fail"]]

\* self.gcomm.bcast(v, root=0), v given per rank
BcastLocal(v) == v
BcastRoot0(v) == [r \in Ranks |-> v[0]]

\* Lines 563-568
KeyPartitionNoPass(funckeys) ==
    [set |-> TRUE,
     input |-> funckeys,
     output |-> conKeys.keys \ funckeys,
     pass |-> {}]
KeyPartition(funckeys) ==
    [set |-> TRUE,
     input |-> funckeys \ conKeys.keys,
     output |-> conKeys.keys \ funckeys,
     pass |-> funckeys \cap conKeys.keys]

FinalEntries(a, b) ==
    <<Entry("bcast", 0, a), Entry("bcast", 0, b), Entry("bcast", 0, "fail")>>

\* Lines 556-577: the all-reduce completes once every rank has entered it;
\* loc[r] is what the combination function gives on rank r.
ObjFinish(loc) ==
    /\ lastCall.op = "obj"
    /\ AllAt("allreduce")
    /\ funcs' = [r \in Ranks |-> [set |-> TRUE, d |-> allFuncs[r]]]
    /\ res' = [r \in Ranks |-> EmptyDict]
    /\ allFuncs' = [r \in Ranks |-> EmptyDict]
    /\ IF ~conKeys.set
       THEN \* funckeys.difference(None)
            /\ pc' = [r \in Ranks |-> "TypeError"]
            /\ log' = [r \in Ranks |-> Append(log[r], Entry("allreduce", -1, ""))]
            /\ UNCHANGED <<keySets, ret>>
       ELSE IF userObjCon = ""
       THEN \* self.userObjCon is None and is called
            /\ pc' = [r \in Ranks |-> "TypeError"]
            /\ keySets' = [r \in Ranks |-> KeyPartition(DOMAIN allFuncs[r])]
            /\ log' = [r \in Ranks |-> Append(log[r], Entry("allreduce", -1, ""))]
            /\ UNCHANGED ret
       ELSE LET fObj == BcastRoot0([r \in Ranks |-> LocalPair(loc[r]).obj])
                fCon == BcastRoot0([r \in Ranks |-> LocalPair(loc[r]).con])
                fail == BcastRoot0(AllReduceLOR)
            IN  /\ pc' = [r \in Ranks |-> "idle"]
                /\ keySets' = [r \in Ranks |-> KeyPartition(DOMAIN allFuncs[r])]
                /\ ret' = [r \in Ranks |->
                        [set |-> TRUE, local |-> loc[r], obj |-> fObj[r],
                         con |-> fCon[r], fail |-> fail[r]]]
                /\ log' = [r \in Ranks |->
                        Append(log[r], Entry("allreduce", -1, ""))
                            \o FinalEntries("fObj", "fCon")]
    /\ UNCHANGED <<topoVars, apiVars, x, commPattern>>

\* -------------------------------------------------------------------- sens
\* Lines 591-603 on rank r; the loop of line 607 raises at once when
\* self.commPattern is still None.
SensLocal(r, xv, outs) ==
    /\ Starts("sens", r)
    /\ x' = xv
    /\ lastCall' = Call("sens", "", 0, 0)
    /\ pc' = [pc EXCEPT ![r] =
            IF FlaggedSet(r) = 0 THEN "UnboundLocalError"
            ELSE IF AnyNone(outs) THEN "AssertionError"
            ELSE IF commPattern[r].built THEN "bcast"
            ELSE "TypeError"]
    /\ res' = [res EXCEPT ![r] =
            IF pc'[r] \in Exceptions THEN EmptyDict ELSE LocalRes(outs)]
    /\ allFuncs' = IF r = 0 THEN [q \in Ranks |-> EmptyDict] ELSE allFuncs
    /\ ret' = IF r = 0 THEN [q \in Ranks |-> NoRet] ELSE ret
    /\ log' = IF r = 0 THEN [q \in Ranks |-> <<>>] ELSE log
    /\ UNCHANGED <<gsize, pSet, dummyPSet, raised, ccStatus, setFlags, setRank,
                   groupFlags, ptID, comm, pSetRoot, nSplit, cgOut>>
    /\ UNCHANGED <<apiVars, commPattern, funcs, keySets>>

SensUnify == lastCall.op = "sens" /\ Unify

\* Lines 615-712: the all-reduce, the complex-step loop on the stored
\* functionals (it raises when obj has stored none since the last
\* setOptProb) and the three broadcasts; loc[r] is what the loop assembles
\* on rank r.
SensFinish(loc) ==
    /\ lastCall.op = "sens"
    /\ AllAt("allreduce")
    /\ res' = [r \in Ranks |-> EmptyDict]
    /\ allFuncs' = [r \in Ranks |-> EmptyDict]
    /\ IF \E r \in Ranks : ~funcs[r].set \/ ~keySets[r].set
       THEN \* self._complexifyFuncs(None, None)
            /\ pc' = [r \in Ranks |-> "TypeError"]
            /\ log' = [r \in Ranks |-> Append(log[r], Entry("allreduce", -1, ""))]
            /\ UNCHANGED ret
       ELSE LET gobj == BcastRoot0([r \in Ranks |-> LocalPair(loc[r]).obj])
                gcon == BcastRoot0([r \in Ranks |-> LocalPair(loc[r]).con])
                fail == BcastRoot0(AllReduceLOR)
            IN  /\ pc' = [r \in Ranks |-> "idle"]
                /\ ret' = [r \in Ranks |->
                        [set |-> TRUE, local |-> loc[r], obj |-> gobj[r],
                         con |-> gcon[r], fail |-> fail[r]]]
                /\ log' = [r \in Ranks |->
                        Append(log[r], Entry("allreduce", -1, ""))
                            \o FinalEntries("gobj", "gcon")]
    /\ UNCHANGED <<topoVars, apiVars, x, commPattern, funcs, keySets>>

\* ------------------------------------------------- the rest of the set-up
\* A call of the set-up returns nothing and communicates nothing
TopoFixed == <<gsize, dummyPSet, ccStatus, setFlags, setRank, groupFlags,
               ptID, comm, pSetRoot, nSplit, cgOut>>
SetUpCall(op) ==
    /\ AllAt("idle")
    /\ raised = ""
    /\ lastCall' = Call(op, "", 0, 0)
    /\ ret' = [r \in Ranks |-> NoRet]
    /\ log' = [r \in Ranks |-> <<>>]
    /\ UNCHANGED <<TopoFixed, x, pc, res, commPattern, allFuncs>>

\* Lines 491-501
SetOptProbKeepsCache(p) ==
    /\ SetUpCall("setOptProb")
    /\ optProb' = p
    /\ conKeys' = [set |-> TRUE,
                   keys |-> {c \in DOMAIN p.constraints :
                                ~p.constraints[c].linear}]
    /\ raised' = ""
    /\ UNCHANGED <<pSet, userObjCon, funcs, keySets>>
SetOptProb(p) ==
    /\ SetUpCall("setOptProb")
    /\ optProb' = p
    /\ conKeys' = [set |-> TRUE,
                   keys |-> {c \in DOMAIN p.constraints :
                                ~p.constraints[c].linear}]
    /\ funcs' = [r \in Ranks |-> NoFuncs]
    /\ keySets' = [r \in Ranks |-> NoKeys]
    /\ raised' = ""
    /\ UNCHANGED <<pSet, userObjCon>>

\* Lines 473-476
SetObjCon(func) ==
    /\ SetUpCall("setObjCon")
    /\ IF ~IsFunction(func)
       THEN /\ raised' = "MPError: func must be a Python function handle"
            /\ UNCHANGED userObjCon
       ELSE /\ raised' = ""
            /\ userObjCon' = func
    /\ UNCHANGED <<pSet, optProb, conKeys, funcs, keySets>>

\* Lines 398-403 (kind "obj") and 418-423 (kind "sens"): the new pSet, or
\* the error raised
SetFuncResult(kind, setName, func) ==
    IF setName \notin PSetNames
    THEN [raised |-> "MPError: setName has not been added", pSet |-> pSet]
    ELSE IF ~IsFunction(func)
    THEN [raised |-> "MPError: func must be a Python function handle",
          pSet |-> pSet]
    ELSE [raised |-> "",
          pSet |-> IF kind = "obj"
                   THEN [pSet EXCEPT ![PSetOf(setName)].objFunc = <<func>>]
                   ELSE [pSet EXCEPT ![PSetOf(setName)].sensFunc = <<func>>]]

SetProcSetObjFunc(setName, func) ==
    /\ SetUpCall("setProcSetObjFunc")
    /\ raised' = SetFuncResult("obj", setName, func).raised
    /\ pSet' = SetFuncResult("obj", setName, func).pSet
    /\ UNCHANGED <<apiVars, funcs, keySets>>

SetProcSetSensFunc(setName, func) ==
    /\ SetUpCall("setProcSetSensFunc")
    /\ raised' = SetFuncResult("sens", setName, func).raised
    /\ pSet' = SetFuncResult("sens", setName, func).pSet
    /\ UNCHANGED <<apiVars, funcs, keySets>>

\* ------------------------------------------------ the evaluation protocol
\* The script that precedes the optimisation: one 'cruise' set of one
\* process, the other processes in a 'maneuver' set of one-process members,
\* one obj and one sens callback per set; createCommunicators comes next.
Registered(ps) == [ps EXCEPT !.objFunc = <<"f">>, !.sensFunc = <<"f">>]
EvalPSet ==
    IF gsize = 1
    THEN <<Registered(NewProcSet("cruise", 1, <<1>>, 0))>>
    ELSE <<Registered(NewProcSet("cruise", 1, <<1>>, 0)),
           Registered(NewProcSet("maneuver", gsize - 1, Ones(gsize - 1, 1), 1))>>

InitEval ==
    /\ gsize \in 1 .. EvalProcs
    /\ pSet = EvalPSet
    /\ dummyPSet = {}
    /\ raised = ""
    /\ ccStatus = [r \in Ranks |-> "none"]
    /\ setFlags = [r \in Ranks |-> NoFlags]
    /\ setRank = [r \in Ranks |-> -1]
    /\ groupFlags = [r \in Ranks |-> NoGroupFlags]
    /\ ptID = [r \in Ranks |-> -1]
    /\ comm = [r \in Ranks |-> {}]
    /\ pSetRoot = NoFlags
    /\ nSplit = [r \in Ranks |-> 0]
    /\ cgOut = CgNone
    /\ lastCall = Call("setProcSetSensFunc", "", 0, 0)
    /\ InitEvalVars

\* What the combination function may give in a call that ends now
FinishInputs == IF AllAt("allreduce") THEN [Ranks -> Locals] ELSE {}
IdleNames == IF AllAt("idle") THEN SetNames ELSE {}

NextEval ==
    \/ CreateCommunicators
    \/ \E r \in StartRanks("obj") : \E xv \in PointsFor("obj", r) :
            \E outs \in Outs("obj", r, xv) : ObjLocal(r, xv, outs)
    \/ ObjDiscover
    \/ ObjUnify
    \/ \E loc \in FinishInputs : ObjFinish(loc)
    \/ \E r \in StartRanks("sens") : \E xv \in PointsFor("sens", r) :
            \E outs \in Outs("sens", r, xv) : SensLocal(r, xv, outs)
    \/ SensUnify
    \/ \E loc \in FinishInputs : SensFinish(loc)
    \/ \E p \in OptProbs : SetOptProb(p)
    \/ \E func \in FuncHandles : SetObjCon(func)
    \/ \E setName \in IdleNames, func \in FuncHandles :
            SetProcSetObjFunc(setName, func)
    \/ \E setName \in IdleNames, func \in FuncHandles :
            SetProcSetSensFunc(setName, func)

SpecEval == InitEval /\ [][NextEval]_vars

\* A collective every process has entered completes, and the call goes on
\* to its end; nothing makes a process call obj or sens again.
FairEval ==
    /\ SpecEval
    /\ WF_vars(ObjDiscover)
    /\ WF_vars(ObjUnify)
    /\ WF_vars(SensUnify)
    /\ WF_vars(\E loc \in FinishInputs : ObjFinish(loc))
    /\ WF_vars(\E loc \in FinishInputs : SensFinish(loc))

\* ================================================ the combination passes
\* What obj does after its all-reduce (lines 560-577) and what sens does
\* after its own (lines 621-712), on the values themselves.  Both parts are
\* local to a process up to the three final broadcasts, so they are followed
\* on a communicator of one process; the unified mappings the broadcasts of
\* the keys leave behind come in as inputs.
MaxComps == 2      \* most components of a vector functional
MaxWidth == 2      \* width of the widest design-variable block

\* A number is <<real part, imaginary part>>, the imaginary part counted in
\* steps of 1e-40.  A functional value is a scalar (one component) or an
\* array; cplx tells whether its representation is complex.
Num(re, im) == <<re, im>>
Shapes == 0 .. MaxComps
NComps(n) == IF n = 0 THEN 1 ELSE n
Base(k) == IF k = "a" THEN 10 ELSE 20
Functional(k, n) ==
    [scalar |-> n = 0, cplx |-> FALSE,
     v |-> [i \in 1 .. NComps(n) |-> Num(Base(k) + i, 0)]]
FuncsOf(shape) == [k \in DOMAIN shape |-> Functional(k, shape[k])]

\* self.optProb.dvOffset[dvSet]['n']
DvOffset == [dv \in {"x", "y"} |->
                IF dv = "x" THEN <<0, 1>> ELSE <<1, 1 + MaxWidth>>]
Ndvs(dv) == DvOffset[dv][2] - DvOffset[dv][1]

\* The optimisation problems of the combination passes
CombineProbs ==
    {[name |-> "p1",
      constraints |-> [c \in {"a", "c", "lin"} |->
                          IF c = "lin" THEN Con(TRUE, {"x"}, 1)
                          ELSE IF c = "a" THEN Con(FALSE, {"y"}, 1)
                          ELSE Con(FALSE, {"x", "y"}, 1)],
      variables |-> {"x", "y"}],
     [name |-> "p2",
      constraints |-> [c \in {"c", "lin"} |->
                          IF c = "lin" THEN Con(TRUE, {"x"}, 1)
                          ELSE Con(FALSE, {"x"}, 2)],
      variables |-> {"x", "y"}]}

\* The Jacobian a sens callback gives for a functional: one block per
\* design-variable block it chooses to give, a row per component; "z" is a
\* block the optimisation problem does not declare.
JacBlocks == {{}, {"x"}, {"y"}, {"x", "y"}, {"x", "z"}}
Width(dv) == IF dv \in DOMAIN DvOffset THEN Ndvs(dv) ELSE 1
DvCode(dv) == IF dv = "x" THEN 1 ELSE IF dv = "y" THEN 2 ELSE 3
JEntry(k, dv, i, j) == Base(k) * 10 + 30 * DvCode(dv) + 5 * i + j
Jac(k, n, blocks) ==
    [dv \in blocks |->
        [i \in 1 .. n |-> [j \in 1 .. Width(dv) |-> JEntry(k, dv, i, j)]]]
FuncSensFor(d) ==
    {[k \in DOMAIN d |-> Jac(k, Len(d[k].v), blocks[k])] :
        blocks \in [DOMAIN d -> JacBlocks]}

\* The combination functions setObjCon is given: each reads the functionals
\* named in keys from the mapping it is handed and gives an objective and
\* one array per output key, all linear in what it reads.
UserFuncs == {"sum", "weighted"}
Coef(f, k, i, off) ==
    IF f = "sum" THEN 1 + off ELSE (Base(k) \div 10) + i + off
Lin(f, d, keys, part, off) ==
    LET ks == SelectSeq(KeyOrder, LAMBDA k : k \in keys)
    IN  SumSeq([n \in 1 .. Len(ks) |->
            SumSeq([i \in 1 .. Len(d[ks[n]].v) |->
                Coef(f, ks[n], i, off) * d[ks[n]].v[i][part]])])
ConOff(o, j) == (IF o = "c" THEN 0 ELSE 4) + j

\* Sum and product of two numbers.  The product of the two imaginary parts
\* is of the order of 1e-80 and is lost in the rounding of the real part.
CAdd(z, w) == Num(z[1] + w[1], z[2] + w[2])
CMulNoCross(z, w) == Num(z[1] * w[1], z[1] * w[2])
CMul(z, w) == Num(z[1] * w[1], z[1] * w[2] + z[2] * w[1])

\* objCon(f) = (f['a'] + f['b'], {'c': f['a'] * f['b']}) on scalars
SumProduct(d) ==
    [obj |-> CAdd(d["a"].v[1], d["b"].v[1]),
     con |-> [o \in {"c"} |-> <<CMul(d["a"].v[1], d["b"].v[1])>>]]

UserObjConResult(f, d, keys, outs) ==
    IF f = "sumProduct" THEN SumProduct(d)
    ELSE
    [obj |-> Num(Lin(f, d, keys, 1, 0), Lin(f, d, keys, 2, 0)),
     con |-> [o \in outs |->
                [j \in 1 .. optProb.constraints[o].ncon |->
                    Num(Lin(f, d, keys, 1, ConOff(o, j)),
                        Lin(f, d, keys, 2, ConOff(o, j)))]]]

\* Lines 714-720
ComplexifyFuncs(d, keys) ==
    [k \in DOMAIN d |->
        IF k \in keys /\ ~d[k].scalar
        THEN [scalar |-> FALSE, cplx |-> TRUE, v |-> d[k].v]
        ELSE d[k]]

\* Lines 722-727
ExtractKeys(d, keys) == [k \in keys |-> d[k]]

\* A call of the combination function: the mapping it was handed and what
\* self.funcs held at that moment
Invocation(arg, stored) == [op |-> "userObjCon", arg |-> arg, stored |-> stored]

\* The unified functionals an obj call holds when its broadcasts are over:
\* one value, scalar or array, for every key of the ownership mapping.
ObjUnified(shape) ==
    /\ AllAt("idle")
    /\ lastCall' = Call("obj", "", 0, 0)
    /\ pc' = [r \in Ranks |-> "allreduce"]
    /\ allFuncs' = [r \in Ranks |-> FuncsOf(shape)]
    /\ res' = [r \in Ranks |-> [k \in {"fail"} |-> FALSE]]
    /\ ret' = [r \in Ranks |-> NoRet]
    /\ log' = [r \in Ranks |-> <<>>]
    /\ UNCHANGED <<gsize, pSet, dummyPSet, raised, ccStatus, setFlags, setRank,
                   groupFlags, ptID, comm, pSetRoot, nSplit, cgOut>>
    /\ UNCHANGED <<apiVars, x, commPattern, funcs, keySets>>

\* Lines 556-577 on the values: the snapshot, the three key sets, the call
\* of the combination function on the input keys and the return.
ObjCombine ==
    /\ lastCall.op = "obj"
    /\ AllAt("allreduce")
    /\ LET stored == [r \in Ranks |-> allFuncs[r]]
           ks == [r \in Ranks |-> KeyPartition(DOMAIN allFuncs[r])]
           inputFuncs == [r \in Ranks |-> ExtractKeys(allFuncs[r], ks[r].input)]
           out == [r \in Ranks |->
                    UserObjConResult(userObjCon, inputFuncs[r],
                                     ks[r].input, ks[r].output)]
           fObj == BcastRoot0([r \in Ranks |-> out[r].obj])
           fCon == BcastRoot0([r \in Ranks |-> out[r].con])
           fail == BcastRoot0(AllReduceLOR)
       IN  /\ funcs' = [r \in Ranks |-> [set |-> TRUE, d |-> stored[r]]]
           /\ keySets' = ks
           /\ log' = [r \in Ranks |-> <<Invocation(inputFuncs[r], stored[r])>>]
           /\ ret' = [r \in Ranks |->
                        [set |-> TRUE, local |-> 0, obj |-> fObj[r],
                         con |-> fCon[r], fail |-> fail[r]]]
    /\ pc' = [r \in Ranks |-> "idle"]
    /\ res' = [r \in Ranks |-> EmptyDict]
    /\ allFuncs' = [r \in Ranks |-> EmptyDict]
    /\ UNCHANGED <<topoVars, apiVars, x, commPattern>>

\* The unified sensitivities a sens call holds when its broadcasts are over
\* (lines 605-613): a Jacobian for every key of the ownership mapping.
SensUnified(funcSens) ==
    /\ AllAt("idle")
    /\ \A r \in Ranks : funcs[r].set
    /\ lastCall' = Call("sens", "", 0, 0)
    /\ pc' = [r \in Ranks |-> "allreduce"]
    /\ allFuncs' = [r \in Ranks |-> funcSens]
    /\ res' = [r \in Ranks |-> [k \in {"fail"} |-> FALSE]]
    /\ ret' = [r \in Ranks |-> NoRet]
    /\ log' = [r \in Ranks |-> <<>>]
    /\ UNCHANGED <<gsize, pSet, dummyPSet, raised, ccStatus, setFlags, setRank,
                   groupFlags, ptID, comm, pSetRoot, nSplit, cgOut>>
    /\ UNCHANGED <<apiVars, x, commPattern, funcs, keySets>>

\* funcs[iKey] += 1e-40j, or funcs[iKey][i] += 1e-40j on the complex array;
\* h is the number of steps added
AddStep(val, i, h) ==
    [scalar |-> val.scalar, cplx |-> TRUE,
     v |-> [val.v EXCEPT ![i] = Num(@[1], @[2] + h)]]

\* Lines 664 and 687
Perturb(d, k, i) ==
    [kk \in DOMAIN d |-> IF kk = k THEN AddStep(d[kk], i, 1) ELSE d[kk]]

\* Lines 666 and 689
RestoreNothing(d, k, i) == d
Restore(d, k, i) ==
    [kk \in DOMAIN d |-> IF kk = k THEN AddStep(d[kk], i, -1) ELSE d[kk]]

\* Line 644: the name funcs is bound to what _complexifyFuncs returns,
\* which is self.funcs itself; the copy made at line 627 is dropped.
Rebind(stored, copy) == [funcs |-> stored, aliased |-> TRUE]

\* numpy.zeros(n) and numpy.zeros((m, n))
Zeros(n) == [j \in 1 .. n |-> 0]
Zeros2(m, n) == [i \in 1 .. m |-> Zeros(n)]

\* Lines 647-650
GobjZero == [dv \in optProb.variables |-> Zeros(Ndvs(dv))]

\* Lines 655-660: the blocks of an output key
ZeroBlocksAllVariables(o) ==
    [dv \in optProb.variables |->
        Zeros2(optProb.constraints[o].ncon, Ndvs(dv))]
ZeroBlocks(o) ==
    [dv \in optProb.constraints[o].wrt |->
        Zeros2(optProb.constraints[o].ncon, Ndvs(dv))]

\* Lines 630-631: gcon[pKey] = funcSens[pKey]
PassThroughEmpty(funcSens, p) == [dv \in {} |-> <<>>]
PassThrough(funcSens, p) == funcSens[p]

\* numpy.imag(z) / 1e-40
Deriv(z) == z[2]
\* a += c * b on vectors of the same length
Axpy(a, c, b) == [j \in DOMAIN a |-> a[j] + c * b[j]]

\* Lines 669-672 and 692-695: what component i of input key k adds to the
\* objective gradient; jac is funcSens[k].
GobjAfterAbsentAsOnes(gobj, jac, i, obj) ==
    [dv \in DOMAIN gobj |->
        IF dv \in DOMAIN jac THEN Axpy(gobj[dv], Deriv(obj), jac[dv][i])
        ELSE Axpy(gobj[dv], Deriv(obj), [j \in DOMAIN gobj[dv] |-> 1])]
GobjAfter(gobj, jac, i, obj) ==
    [dv \in DOMAIN gobj |->
        IF dv \in DOMAIN jac THEN Axpy(gobj[dv], Deriv(obj), jac[dv][i])
        ELSE gobj[dv]]

\* Lines 675-683 and 698-706: what it adds to the blocks of the output keys
GconAfter(gcon, outKeys, jac, i, con) ==
    [o \in DOMAIN gcon |->
        IF o \in outKeys
        THEN [dv \in DOMAIN gcon[o] |->
                IF dv \in DOMAIN jac
                THEN [c \in DOMAIN gcon[o][dv] |->
                        Axpy(gcon[o][dv][c], Deriv(con[o][c]), jac[dv][i])]
                ELSE gcon[o][dv]]
        ELSE gcon[o]]

\* The components the loop of line 662 goes through
RECURSIVE Comps(_, _)
Comps(d, ks) ==
    IF ks = <<>> THEN <<>>
    ELSE [i \in 1 .. Len(d[Head(ks)].v) |-> <<Head(ks), i>>]
            \o Comps(d, Tail(ks))

\* One pass of the loop body (lines 663-706) on rank r: st holds self.funcs,
\* the mapping bound to the name funcs, the calls made so far and the two
\* gradients.
CSStep(r, st, k, i) ==
    LET pert == Perturb(st.funcs, k, i)
        out == UserObjConResult(userObjCon, pert, keySets[r].input,
                                keySets[r].output)
        back == Restore(pert, k, i)
    IN  [funcs |-> back,
         aliased |-> st.aliased,
         self |-> IF st.aliased THEN back ELSE st.self,
         calls |-> Append(st.calls,
                     Invocation(pert, IF st.aliased THEN pert ELSE st.self)),
         gobj |-> GobjAfter(st.gobj, allFuncs[r][k], i, out.obj),
         gcon |-> GconAfter(st.gcon, keySets[r].output, allFuncs[r][k],
                            i, out.con)]

RECURSIVE CSLoop(_, _, _)
CSLoop(r, st, todo) ==
    IF todo = <<>> THEN st
    ELSE CSLoop(r, CSStep(r, st, Head(todo)[1], Head(todo)[2]), Tail(todo))

\* Lines 621-706 on rank r
CSResult(r) ==
    LET ik == keySets[r].input
        s1 == ComplexifyFuncs(funcs[r].d, ik)
        copy == ExtractKeys(s1, ik)
        s2 == ComplexifyFuncs(s1, ik)
        bound == Rebind(s2, copy)
        gcon0 == [c \in keySets[r].pass \cup keySets[r].output |->
                    IF c \in keySets[r].pass THEN PassThrough(allFuncs[r], c)
                    ELSE ZeroBlocks(c)]
        ks == SelectSeq(KeyOrder, LAMBDA k : k \in ik)
    IN  CSLoop(r, [funcs |-> bound.funcs, aliased |-> bound.aliased,
                   self |-> s2, calls |-> <<>>,
                   gobj |-> GobjZero, gcon |-> gcon0],
               Comps(bound.funcs, ks))

\* Lines 615-712 on the values: the complex-step loop and the return
SensCombine ==
    /\ lastCall.op = "sens"
    /\ AllAt("allreduce")
    /\ LET cs == [r \in Ranks |-> CSResult(r)]
           gobj == BcastRoot0([r \in Ranks |-> cs[r].gobj])
           gcon == BcastRoot0([r \in Ranks |-> cs[r].gcon])
           fail == BcastRoot0(AllReduceLOR)
       IN  /\ funcs' = [r \in Ranks |-> [set |-> TRUE, d |-> cs[r].self]]
           /\ log' = [r \in Ranks |-> cs[r].calls]
           /\ ret' = [r \in Ranks |->
                        [set |-> TRUE, local |-> 0, obj |-> gobj[r],
                         con |-> gcon[r], fail |-> fail[r]]]
    /\ pc' = [r \in Ranks |-> "idle"]
    /\ res' = [r \in Ranks |-> EmptyDict]
    /\ UNCHANGED <<topoVars, apiVars, x, commPattern, allFuncs, keySets>>

\* One process, communicators made, an optimisation problem and a
\* combination function set, and an ownership mapping over some of the
\* functional names.
InitCombine ==
    /\ gsize = 1
    /\ pSet = EvalPSet
    /\ dummyPSet = {}
    /\ raised = ""
    /\ ccStatus = [r \in Ranks |-> "done"]
    /\ setFlags = [r \in Ranks |-> [name \in {"cruise"} |-> TRUE]]
    /\ setRank = [r \in Ranks |-> 0]
    /\ groupFlags = [r \in Ranks |-> [i \in {0} |-> TRUE]]
    /\ ptID = [r \in Ranks |-> 0]
    /\ comm = [r \in Ranks |-> {0}]
    /\ pSetRoot = [name \in {"cruise"} |-> TRUE]
    /\ nSplit = [r \in Ranks |-> 2]
    /\ cgOut = CgNone
    /\ lastCall = Call("setObjCon", "", 0, 0)
    /\ optProb \in CombineProbs
    /\ conKeys = [set |-> TRUE,
                  keys |-> {c \in DOMAIN optProb.constraints :
                                ~optProb.constraints[c].linear}]
    /\ userObjCon \in UserFuncs
    /\ x = 0
    /\ pc = [r \in Ranks |-> "idle"]
    /\ res = [r \in Ranks |-> EmptyDict]
    /\ \E keys \in SUBSET FuncKeys :
            commPattern = [r \in Ranks |->
                [built |-> TRUE,
                 keys |-> SelectSeq(KeyOrder, LAMBDA k : k \in keys),
                 owner |-> [k \in keys |-> 0]]]
    /\ allFuncs = [r \in Ranks |-> EmptyDict]
    /\ funcs = [r \in Ranks |-> NoFuncs]
    /\ keySets = [r \in Ranks |-> NoKeys]
    /\ ret = [r \in Ranks |-> NoRet]
    /\ log = [r \in Ranks |-> <<>>]

ObjShapes ==
    IF AllAt("idle") THEN [DOMAIN commPattern[0].owner -> Shapes] ELSE {}
SensInputs ==
    IF AllAt("idle") /\ funcs[0].set THEN FuncSensFor(funcs[0].d) ELSE {}

NextCombine ==
    \/ \E shape \in ObjShapes : ObjUnified(shape)
    \/ ObjCombine
    \/ \E funcSens \in SensInputs : SensUnified(funcSens)
    \/ SensCombine

SpecCombine == InitCombine /\ [][NextCombine]_vars

\* ------------------------------------------------ a product of functionals
\* The combination passes with two scalar functionals a and b, one
\* nonlinear constraint c that no functional produces, and the combination
\* function that adds them for the objective and multiplies them for c.
MaxVal == 4        \* largest value of a functional

ExampleProb ==
    [name |-> "example",
     constraints |-> [c \in {"c"} |-> Con(FALSE, {"x", "y"}, 1)],
     variables |-> {"x", "y"}]

Scalar(v) == [scalar |-> TRUE, cplx |-> FALSE, v |-> <<Num(v, 0)>>]

\* The unified functionals of an obj call: a = va, b = vb
ObjUnifiedScalars(va, vb) ==
    /\ AllAt("idle")
    /\ lastCall' = Call("obj", "", 0, 0)
    /\ pc' = [r \in Ranks |-> "allreduce"]
    /\ allFuncs' = [r \in Ranks |->
                        [k \in {"a", "b"} |->
                            IF k = "a" THEN Scalar(va) ELSE Scalar(vb)]]
    /\ res' = [r \in Ranks |-> [k \in {"fail"} |-> FALSE]]
    /\ ret' = [r \in Ranks |-> NoRet]
    /\ log' = [r \in Ranks |-> <<>>]
    /\ UNCHANGED <<gsize, pSet, dummyPSet, raised, ccStatus, setFlags, setRank,
                   groupFlags, ptID, comm, pSetRoot, nSplit, cgOut>>
    /\ UNCHANGED <<apiVars, x, commPattern, funcs, keySets>>

InitExample ==
    /\ gsize = 1
    /\ pSet = EvalPSet
    /\ dummyPSet = {}
    /\ raised = ""
    /\ ccStatus = [r \in Ranks |-> "done"]
    /\ setFlags = [r \in Ranks |-> [name \in {"cruise"} |-> TRUE]]
    /\ setRank = [r \in Ranks |-> 0]
    /\ groupFlags = [r \in Ranks |-> [i \in {0} |-> TRUE]]
    /\ ptID = [r \in Ranks |-> 0]
    /\ comm = [r \in Ranks |-> {0}]
    /\ pSetRoot = [name \in {"cruise"} |-> TRUE]
    /\ nSplit = [r \in Ranks |-> 2]
    /\ cgOut = CgNone
    /\ lastCall = Call("setObjCon", "", 0, 0)
    /\ optProb = ExampleProb
    /\ conKeys = [set |-> TRUE, keys |-> {"c"}]
    /\ userObjCon = "sumProduct"
    /\ x = 0
    /\ pc = [r \in Ranks |-> "idle"]
    /\ res = [r \in Ranks |-> EmptyDict]
    /\ commPattern = [r \in Ranks |->
            [built |-> TRUE, keys |-> <<"a", "b">>,
             owner |-> [k \in {"a", "b"} |-> 0]]]
    /\ allFuncs = [r \in Ranks |-> EmptyDict]
    /\ funcs = [r \in Ranks |-> NoFuncs]
    /\ keySets = [r \in Ranks |-> NoKeys]
    /\ ret = [r \in Ranks |-> NoRet]
    /\ log = [r \in Ranks |-> <<>>]

ExampleValues == IF AllAt("idle") THEN 1 .. MaxVal ELSE {}

NextExample ==
    \/ \E va, vb \in ExampleValues : ObjUnifiedScalars(va, vb)
    \/ ObjCombine
    \/ \E funcSens \in SensInputs : SensUnified(funcSens)
    \/ SensCombine

SpecExample == InitExample /\ [][NextExample]_vars

\* ------------------------------------------------- more than one callback
MaxFuncs == 2      \* most callbacks of one kind registered for a set

\* Lines 436-441 (kind "obj") and 455-460 (kind "sens"): the new pSet, or
\* the error raised
AddFuncResult(kind, setName, func) ==
    IF setName \notin PSetNames
    THEN [raised |-> "MPError: setName has not been added", pSet |-> pSet]
    ELSE IF ~IsFunction(func)
    THEN [raised |-> "MPError: func must be a Python function handle",
          pSet |-> pSet]
    ELSE [raised |-> "",
          pSet |-> IF kind = "obj"
                   THEN [pSet EXCEPT ![PSetOf(setName)].objFunc =
                                        Append(@, func)]
                   ELSE [pSet EXCEPT ![PSetOf(setName)].sensFunc =
                                        Append(@, func)]]

AddProcSetObjFunc(setName, func) ==
    /\ SetUpCall("addProcSetObjFunc")
    /\ raised' = AddFuncResult("obj", setName, func).raised
    /\ pSet' = AddFuncResult("obj", setName, func).pSet
    /\ UNCHANGED <<apiVars, funcs, keySets>>

AddProcSetSensFunc(setName, func) ==
    /\ SetUpCall("addProcSetSensFunc")
    /\ raised' = AddFuncResult("sens", setName, func).raised
    /\ pSet' = AddFuncResult("sens", setName, func).pSet
    /\ UNCHANGED <<apiVars, funcs, keySets>>

\* The names registration is tried with: the two set names, 'reserve' and
\* 'landing'
RegNames == SetNames \cup {"reserve", "landing"}

\* The callbacks of the given kind registered for the set setName
FuncsOfSet(kind, setName) ==
    IF kind = "obj" THEN pSet[PSetOf(setName)].objFunc
    ELSE pSet[PSetOf(setName)].sensFunc

\* The names a callback of the given kind may still be added for
AddableNames(kind) ==
    IF AllAt("idle") /\ raised = ""
    THEN {n \in RegNames :
            n \in PSetNames => Len(FuncsOfSet(kind, n)) < MaxFuncs}
    ELSE {}

\* The script: the sets of the evaluation protocol with one callback of each
\* kind, the optimisation problem and the combination function set; more
\* obj callbacks are added before createCommunicators, then obj is called.
InitTwoFuncs ==
    /\ gsize \in 1 .. EvalProcs
    /\ pSet = EvalPSet
    /\ dummyPSet = {}
    /\ raised = ""
    /\ ccStatus = [r \in Ranks |-> "none"]
    /\ setFlags = [r \in Ranks |-> NoFlags]
    /\ setRank = [r \in Ranks |-> -1]
    /\ groupFlags = [r \in Ranks |-> NoGroupFlags]
    /\ ptID = [r \in Ranks |-> -1]
    /\ comm = [r \in Ranks |-> {}]
    /\ pSetRoot = NoFlags
    /\ nSplit = [r \in Ranks |-> 0]
    /\ cgOut = CgNone
    /\ lastCall = Call("setObjCon", "", 0, 0)
    /\ optProb \in OptProbs
    /\ conKeys = [set |-> TRUE,
                  keys |-> {c \in DOMAIN optProb.constraints :
                                ~optProb.constraints[c].linear}]
    /\ userObjCon = "f"
    /\ x = 0
    /\ pc = [r \in Ranks |-> "idle"]
    /\ res = [r \in Ranks |-> EmptyDict]
    /\ commPattern = [r \in Ranks |-> NoPattern]
    /\ allFuncs = [r \in Ranks |-> EmptyDict]
    /\ funcs = [r \in Ranks |-> NoFuncs]
    /\ keySets = [r \in Ranks |-> NoKeys]
    /\ ret = [r \in Ranks |-> NoRet]
    /\ log = [r \in Ranks |-> <<>>]

EarlyNames(kind) ==
    IF \A r \in Ranks : ccStatus[r] = "none"
    THEN AddableNames(kind) \cap PSetNames ELSE {}

NextTwoFuncs ==
    \/ \E setName \in EarlyNames("obj") : AddProcSetObjFunc(setName, "f")
    \/ CreateCommunicators
    \/ \E r \in StartRanks("obj") : \E xv \in PointsFor("obj", r) :
            \E outs \in Outs("obj", r, xv) : ObjLocal(r, xv, outs)
    \/ ObjDiscover
    \/ ObjUnify
    \/ \E loc \in FinishInputs : ObjFinish(loc)

SpecTwoFuncs == InitTwoFuncs /\ [][NextTwoFuncs]_vars

\* ------------------------------------------------------- the registration
\* The script up to the registration of the callbacks: the sets of the
\* evaluation protocol declared without callbacks, and a set 'reserve'
\* declared with nMembers == 0; 'landing' is never declared.
DeclaredPSet ==
    [i \in DOMAIN EvalPSet |->
        NewProcSet(EvalPSet[i].setName, EvalPSet[i].nMembers,
                   EvalPSet[i].memberSizes, EvalPSet[i].setID)]

InitRegister ==
    /\ gsize \in 1 .. EvalProcs
    /\ pSet = DeclaredPSet
    /\ dummyPSet = {"reserve"}
    /\ raised = ""
    /\ ccStatus = [r \in Ranks |-> "none"]
    /\ setFlags = [r \in Ranks |-> NoFlags]
    /\ setRank = [r \in Ranks |-> -1]
    /\ groupFlags = [r \in Ranks |-> NoGroupFlags]
    /\ ptID = [r \in Ranks |-> -1]
    /\ comm = [r \in Ranks |-> {}]
    /\ pSetRoot = NoFlags
    /\ nSplit = [r \in Ranks |-> 0]
    /\ cgOut = CgNone
    /\ lastCall = Call("addProcessorSet", "reserve", 0, 0)
    /\ InitEvalVars

RegisterNames == IF AllAt("idle") /\ raised = "" THEN RegNames ELSE {}

NextRegister ==
    \/ \E setName \in RegisterNames, func \in FuncHandles :
            SetProcSetObjFunc(setName, func)
    \/ \E setName \in RegisterNames, func \in FuncHandles :
            SetProcSetSensFunc(setName, func)
    \/ \E setName \in AddableNames("obj"), func \in FuncHandles :
            AddProcSetObjFunc(setName, func)
    \/ \E setName \in AddableNames("sens"), func \in FuncHandles :
            AddProcSetSensFunc(setName, func)

SpecRegister == InitRegister /\ [][NextRegister]_vars

\* --------------------------------------------------------- the rebinding
\* setOptProb called again, between the evaluations, with another problem:
\* 'q' declares b as its one non-linear constraint.
RebindProbs ==
    OptProbs \cup
    {[name |-> "q",
      constraints |-> [c \in {"b", "lin"} |->
                          IF c = "lin" THEN Con(TRUE, {"x"}, 1)
                          ELSE Con(FALSE, {"x", "y"}, 1)],
      variables |-> {"x", "y"}]}

InitRebind ==
    /\ gsize \in 1 .. EvalProcs
    /\ pSet = EvalPSet
    /\ dummyPSet = {}
    /\ raised = ""
    /\ ccStatus = [r \in Ranks |-> "none"]
    /\ setFlags = [r \in Ranks |-> NoFlags]
    /\ setRank = [r \in Ranks |-> -1]
    /\ groupFlags = [r \in Ranks |-> NoGroupFlags]
    /\ ptID = [r \in Ranks |-> -1]
    /\ comm = [r \in Ranks |-> {}]
    /\ pSetRoot = NoFlags
    /\ nSplit = [r \in Ranks |-> 0]
    /\ cgOut = CgNone
    /\ lastCall = Call("setObjCon", "", 0, 0)
    /\ optProb = NoOptProb
    /\ conKeys = [set |-> FALSE, keys |-> {}]
    /\ userObjCon = "f"
    /\ x = 0
    /\ pc = [r \in Ranks |-> "idle"]
    /\ res = [r \in Ranks |-> EmptyDict]
    /\ commPattern = [r \in Ranks |-> NoPattern]
    /\ allFuncs = [r \in Ranks |-> EmptyDict]
    /\ funcs = [r \in Ranks |-> NoFuncs]
    /\ keySets = [r \in Ranks |-> NoKeys]
    /\ ret = [r \in Ranks |-> NoRet]
    /\ log = [r \in Ranks |-> <<>>]

NextRebind ==
    \/ CreateCommunicators
    \/ \E p \in RebindProbs : SetOptProb(p)
    \/ \E r \in StartRanks("obj") : \E xv \in PointsFor("obj", r) :
            \E outs \in Outs("obj", r, xv) : ObjLocal(r, xv, outs)
    \/ ObjDiscover
    \/ ObjUnify
    \/ \E loc \in FinishInputs : ObjFinish(loc)
    \/ \E r \in StartRanks("sens") : \E xv \in PointsFor("sens", r) :
            \E outs \in Outs("sens", r, xv) : SensLocal(r, xv, outs)
    \/ SensUnify
    \/ \E loc \in FinishInputs : SensFinish(loc)

SpecRebind == InitRebind /\ [][NextRebind]_vars

\* ============================================================= the claims
AllDone == \A r \in Ranks : ccStatus[r] = "done"
TrueNames(r) == {name \in DOMAIN setFlags[r] : setFlags[r][name]}
TrueMembers(r) == {i \in DOMAIN groupFlags[r] : groupFlags[r][i]}

\* The processes declared by the procSets added before the i-th one
ProcsBefore(i) == SumSeq([j \in 1 .. (i - 1) |-> pSet[j].nProc])
\* The processes of the members before member m (0-based) of procSet ps
MembersBefore(ps, m) == SumSeq(SubSeq(ps.memberSizes, 1, m))

\* C1: once createCommunicators has accepted the processor sets (their sizes
\* sum to the communicator size), every rank is in exactly one set and in
\* exactly one member of it, no rank is left without a set or a member, and
\* the member communicators split the ranks into disjoint groups of the
\* declared sizes.
C1_EveryRankInOneSetOneMember ==
    /\ \A r \in Ranks : ccStatus[r] \in {"none", "done"}
    /\ AllDone =>
         \A r \in Ranks :
            /\ Cardinality(TrueNames(r)) = 1
            /\ Cardinality(TrueMembers(r)) = 1
            /\ r \in comm[r]
            /\ \A q \in Ranks : comm[q] = comm[r] \/ comm[q] \cap comm[r] = {}
            /\ \E i \in 1 .. Len(pSet) :
                  /\ TrueNames(r) = {pSet[i].setName}
                  /\ Cardinality(comm[r]) = pSet[i].memberSizes[ptID[r] + 1]

C1_Witness ==
    /\ AllDone
    /\ gsize = 3
    /\ Len(pSet) = 2
    /\ \E r \in Ranks : ptID[r] = 1
    /\ \E r, q \in Ranks : TrueNames(r) # TrueNames(q)

\* C2: createCommunicators and createGroups raise an error whenever the
\* declared sizes do not sum to the communicator size, be the sum smaller or
\* larger, and no rank has made a Split call by then.
C2_SizeMismatchFailsBeforeSplit ==
    /\ (lastCall.op = "createCommunicators" /\ NProcTotal # gsize) =>
          /\ raised = "MPError: must be called with EXACTLY nProc processors"
          /\ \A r \in Ranks : nSplit[r] = 0 /\ ccStatus[r] = "none"
    /\ (lastCall.op = "createGroups" /\ SumSeq(cgOut.sizes) # gsize) =>
          /\ cgOut.status = "MPError: Cannot split comm"
          /\ \A r \in Ranks : cgOut.nSplit[r] = 0

C2_Witness ==
    /\ lastCall.op = "createCommunicators"
    /\ NProcTotal > gsize
    /\ raised # ""

\* C3 as stated: for every nMembers, 0 included, a memberSizes list whose
\* length is neither nMembers nor 1 is refused with the length error and no
\* processor set is registered.
C3_Original ==
    (/\ lastCall.op = "addProcessorSet"
     /\ lastCall.nSizes # lastCall.nMembers
     /\ lastCall.nSizes # 1) =>
        /\ raised = "MPError: memberSizes list is not the correct length"
        /\ lastCall.setName \notin Declared

\* C3 as amended: for every nMembers other than 0, a memberSizes list whose
\* length is neither nMembers nor 1 is refused with the length error and
\* registers nothing, and every registered set has exactly nMembers sizes;
\* with nMembers = 0 the call is accepted whatever the list is and the name
\* is recorded as a dummy set.
C3_LengthMismatchRefused ==
    /\ (/\ lastCall.op = "addProcessorSet"
        /\ lastCall.nMembers # 0
        /\ lastCall.nSizes # lastCall.nMembers
        /\ lastCall.nSizes # 1) =>
           /\ raised = "MPError: memberSizes list is not the correct length"
           /\ lastCall.setName \notin Declared
    /\ (lastCall.op = "addProcessorSet" /\ lastCall.nMembers = 0) =>
           /\ raised = ""
           /\ lastCall.setName \in dummyPSet
           /\ lastCall.setName \notin PSetNames
    /\ \A i \in 1 .. Len(pSet) : Len(pSet[i].memberSizes) = pSet[i].nMembers

C3_Witness ==
    /\ lastCall.op = "addProcessorSet"
    /\ lastCall.nMembers = 2
    /\ lastCall.nSizes = 0
    /\ raised # ""
    /\ Len(pSet) = 1

\* C4: after createCommunicators, on every rank setFlags has an entry for
\* each declared name, true for exactly the set whose rank interval holds
\* the rank and false for every dummy set; groupFlags has nMembers entries
\* of the rank's set and is true at exactly the index ptID, the member whose
\* interval holds the rank's place in the set.
C4_FlagsMatchIntervals ==
    AllDone =>
      \A r \in Ranks :
        /\ DOMAIN setFlags[r] = Declared
        /\ \A name \in dummyPSet : ~setFlags[r][name]
        /\ \A i \in 1 .. Len(pSet) :
              setFlags[r][pSet[i].setName] <=>
                (ProcsBefore(i) <= r /\ r < ProcsBefore(i) + pSet[i].nProc)
        /\ Cardinality(TrueNames(r)) = 1
        /\ \A i \in 1 .. Len(pSet) :
              setFlags[r][pSet[i].setName] =>
                /\ DOMAIN groupFlags[r] = 0 .. (pSet[i].nMembers - 1)
                /\ TrueMembers(r) = {ptID[r]}
                /\ LET place == r - ProcsBefore(i)
                   IN  /\ MembersBefore(pSet[i], ptID[r]) <= place
                       /\ place < MembersBefore(pSet[i], ptID[r] + 1)

C4_Witness ==
    /\ AllDone
    /\ dummyPSet # {}
    /\ gsize = 3
    /\ \E r \in Ranks : ptID[r] = 1 /\ r = 2
    /\ \E i \in 1 .. Len(pSet) : pSet[i].memberSizes = <<2, 1>>

\* ------------------------------------------------- the evaluation claims
AllGather == Entry("allgather", -1, "")
AllReduce == Entry("allreduce", -1, "")
Waiting == {"allgather", "bcast", "inBcast", "allreduce"}
LocalErrors == {"AssertionError", "UnboundLocalError"}

\* The names the ranks produced in the current call
Produced == (UNION {DOMAIN res[q] : q \in Ranks}) \ {"fail"}
Producers(k) == {q \in Ranks : k \in DOMAIN res[q]}
Lowest(S) == CHOOSE q \in S : \A p \in S : q <= p

\* The all-gather of the current call has just completed
JustDiscovered == AllAt("bcast") /\ \A r \in Ranks : log[r] = <<AllGather>>

\* C5: after the all-gather of the first obj call the ownership mapping of
\* every process has exactly the functional names some rank produced, each
\* mapped to the lowest rank that produced it, never 'fail', and is the
\* same on every process; the mapping is determined by the gathered key
\* lists alone.
C5_OwnerIsLowestProducer ==
    JustDiscovered =>
        \A r \in Ranks :
            LET pat == commPattern[r]
            IN  /\ pat.built
                /\ DOMAIN pat.owner = Produced
                /\ "fail" \notin DOMAIN pat.owner
                /\ \A k \in DOMAIN pat.owner :
                        pat.owner[k] = Lowest(Producers(k))
                /\ {pat.keys[i] : i \in 1 .. Len(pat.keys)} = DOMAIN pat.owner
                /\ Len(pat.keys) = Cardinality(DOMAIN pat.owner)
                /\ pat = commPattern[0]

C5_Witness ==
    /\ JustDiscovered
    /\ gsize = 2
    /\ "a" \in DOMAIN res[0] /\ "a" \in DOMAIN res[1]
    /\ "b" \notin DOMAIN res[0] /\ "b" \in DOMAIN res[1]
    /\ res[0]["fail"]
    /\ commPattern[1].owner["a"] = 0
    /\ commPattern[1].owner["b"] = 1

\* C6: once a process has built its ownership mapping, no step of obj, of
\* sens, of setOptProb, of setObjCon or of a callback registration changes
\* it.
C6_MappingFrozen ==
    [][\A r \in Ranks :
          commPattern[r].built => commPattern'[r] = commPattern[r]]_vars

C6_Witness ==
    /\ \A r \in Ranks : commPattern[r].built
    /\ commPattern[0].keys = <<"a">>
    /\ lastCall.op = "sens"
    /\ AllAt("idle")
    /\ ret[0].set

\* The names rank r produced in the current call that its ownership mapping
\* does not have
NewNames(r) == (DOMAIN res[r] \ {"fail"}) \ DOMAIN commPattern[r].owner

\* C7 (as stated): a call in which a process produced a name absent from
\* the ownership mapping built before fails; no process gets past the
\* broadcasts of the call.
C7_Original ==
    (/\ \A r \in Ranks : commPattern[r].built
     /\ \E r \in Ranks : NewNames(r) # {})
        => \A r \in Ranks : pc[r] # "allreduce"

\* Every rank that owns a name produced it in the current call
OwnersHoldKeys ==
    \A r \in Ranks :
        \A k \in DOMAIN commPattern[r].owner :
            commPattern[r].owner[k] = r => k \in DOMAIN res[r]

KeyBcasts(r) ==
    [i \in 1 .. NumKeys(r) |-> Entry("bcast", RootAt(r, i), KeyAt(r, i))]
Schedule(r) ==
    (IF log[r] # <<>> /\ log[r][1] = AllGather THEN <<AllGather>> ELSE <<>>)
        \o KeyBcasts(r) \o <<AllReduce>>
        \o (IF lastCall.op = "obj" THEN FinalEntries("fObj", "fCon")
            ELSE FinalEntries("gobj", "gcon"))
IsPrefix(s, t) == Len(s) <= Len(t) /\ \A i \in 1 .. Len(s) : s[i] = t[i]

\* Every callback returned a mapping, and every owner the names it owns
WellBehaved ==
    /\ \A r \in Ranks : pc[r] \notin LocalErrors
    /\ (\E r \in Ranks : pc[r] \in {"bcast", "inBcast", "KeyError", "allreduce"})
            => OwnersHoldKeys

C9_UnifiedIsOwnersValue ==
    (lastCall.op = "obj" /\ AllAt("allreduce")) =>
        \A r \in Ranks :
            /\ DOMAIN allFuncs[r] = DOMAIN commPattern[r].owner
            /\ allFuncs[r] = allFuncs[0]
            /\ \A k \in DOMAIN allFuncs[r] :
                LET owner == commPattern[r].owner[k]
                IN  /\ allFuncs[r][k] = res[owner][k]
                    /\ allFuncs[r][k] = Mark(owner, x)

C9_Witness ==
    /\ lastCall.op = "obj"
    /\ AllAt("allreduce")
    /\ gsize = 2
    /\ x = 1
    /\ "a" \in DOMAIN commPattern[1].owner
    /\ commPattern[1].owner["a"] = 0
    /\ "a" \in DOMAIN res[1]
    /\ res[1]["a"] = Mark(1, 1)
    /\ allFuncs[1]["a"] = Mark(0, 1)
    /\ funcs[1].set
    /\ "a" \in DOMAIN funcs[1].d
    /\ funcs[1].d["a"] = Mark(0, 0)

\* C10: the processes return from an obj or a sens call together, with the
\* same objective (gradient), constraints (gradient) and fail flag,
\* whatever each had computed before the final broadcasts.
C10_SameTripleEverywhere ==
    \A r, q \in Ranks :
        ret[r].set =>
            /\ ret[q].set
            /\ ret[q].obj = ret[r].obj
            /\ ret[q].con = ret[r].con
            /\ ret[q].fail = ret[r].fail

C10_Witness ==
    /\ gsize = 2
    /\ AllAt("idle")
    /\ lastCall.op = "sens"
    /\ ret[0].set /\ ret[1].set
    /\ ret[0].local # ret[1].local
    /\ ret[1].obj = LocalPair(ret[0].local).obj
    /\ ret[1].fail

\* C11: the fail flag a call of obj or of sens returns on a process is true
\* exactly when the local failure indicator of at least one process is true,
\* wherever that process is; the local indicator of a process is the 'fail'
\* entry its callbacks returned, and false when they returned none.
C11_FailIsAnyLocalFail ==
    [][/\ (AllAt("allreduce") /\ \A r \in Ranks : ret'[r].set) =>
            \A r \in Ranks : ret'[r].fail = (\E q \in Ranks : res[q]["fail"])
       /\ \A r \in Ranks :
            (pc[r] = "idle" /\ pc'[r] \in Waiting) =>
                \E outs \in Outs(lastCall'.op, r, x') :
                    LET m == Merge(EmptyDict, outs)
                    IN  /\ ~AnyNone(outs)
                        /\ \A k \in DOMAIN m : k \in DOMAIN res'[r]
                                                /\ res'[r][k] = m[k]
                        /\ DOMAIN res'[r] = DOMAIN m \cup {"fail"}
                        /\ "fail" \notin DOMAIN m => ~res'[r]["fail"]]_vars

C11_Witness ==
    /\ gsize = 2
    /\ AllAt("idle")
    /\ lastCall.op = "obj"
    /\ ret[0].set /\ ret[0].fail
    /\ funcs[0].set
    /\ DOMAIN funcs[0].d = {"b"}
    /\ funcs[0].d["b"] = Mark(1, 0)

\* The call in progress has all it needs to return: the constraint names
\* and the combination function are set, and a sens call finds the
\* functionals an obj call stored.
CanReturn ==
    /\ conKeys.set
    /\ userObjCon # ""
    /\ lastCall.op = "sens" =>
            \A r \in Ranks : funcs[r].set /\ keySets[r].set

\* C12: a callback that returns fail = true with its functionals aborts
\* nothing: no process raises because of it, every process goes through
\* every collective of the call, and every process returns fail = true as
\* an ordinary return value.
C12_FailIsReturnedNotRaised ==
    [][(/\ AllAt("allreduce")
        /\ \E q \in Ranks : res[q]["fail"]
        /\ CanReturn) =>
            \A r \in Ranks :
                /\ pc'[r] = "idle"
                /\ ret'[r].set
                /\ ret'[r].fail
                /\ Len(log'[r]) = Len(Schedule(r))
                /\ \A i \in 1 .. Len(log'[r]) : log'[r][i] = Schedule(r)[i]]_vars

C12_Witness ==
    /\ gsize = 2
    /\ AllAt("idle")
    /\ lastCall.op = "sens"
    /\ ret[0].set /\ ret[1].set
    /\ ret[0].fail /\ ret[1].fail
    /\ log[1] = <<Entry("bcast", 0, "a"), Entry("bcast", 1, "b"), AllReduce>>
                    \o FinalEntries("gobj", "gcon")

\* Rank r leaves the idle state: the local part of a call
Leaves(r) == pc[r] = "idle" /\ pc'[r] # "idle"

\* The step is the local part of a call on rank r in which the callback
\* returned out
LocalStep(r, out) ==
    \/ lastCall'.op = "obj" /\ ObjLocal(r, x', <<out>>)
    \/ lastCall'.op = "sens" /\ SensLocal(r, x', <<out>>)

\* C13 (as stated): a call in which a callback of the process's own set
\* returns no value or an empty mapping fails on that process.
C13_Original ==
    [][\A r \in Ranks :
          Leaves(r) =>
              \A out \in {[none |-> TRUE, d |-> EmptyDict],
                          [none |-> FALSE, d |-> EmptyDict]} :
                  (Len(CallbacksOf(lastCall'.op, r)) = 1 /\ LocalStep(r, out))
                      => pc'[r] = "AssertionError"]_vars

\* C13: a call of obj or of sens in which a callback of the process's own
\* set returns no value fails on that process with an assertion error; a
\* callback that returns a mapping, the empty one included, never makes the
\* call fail this way: the empty mapping is taken as a result without
\* functionals.
C13_OnlyNoneIsRefused ==
    [][\A r \in Ranks :
          Leaves(r) =>
              /\ pc'[r] = "AssertionError" =>
                    /\ Len(CallbacksOf(lastCall'.op, r)) = 1
                    /\ LocalStep(r, [none |-> TRUE, d |-> EmptyDict])
                    /\ \A out \in Returns(r, x') :
                            ~out.none => ~LocalStep(r, out)
              /\ pc'[r] # "AssertionError" =>
                    \/ Len(CallbacksOf(lastCall'.op, r)) = 0
                    \/ ~LocalStep(r, [none |-> TRUE, d |-> EmptyDict])
              /\ (pc'[r] \in Waiting
                    /\ res'[r] = [k \in {"fail"} |-> FALSE]) =>
                        LocalStep(r, [none |-> FALSE, d |-> EmptyDict])]_vars

C13_Witness ==
    /\ gsize = 2
    /\ lastCall.op = "obj"
    /\ pc[0] = "allgather"
    /\ res[0] = [k \in {"fail"} |-> FALSE]
    /\ pc[1] = "AssertionError"

\* ------------------------------------------- the combination-pass claims
ObjReturned ==
    lastCall.op = "obj" /\ AllAt("idle") /\ \A r \in Ranks : ret[r].set
SensReturned ==
    lastCall.op = "sens" /\ AllAt("idle") /\ \A r \in Ranks : ret[r].set

\* C14 (as stated): no step of a sens call changes the functionals obj
\* stored, neither their values nor their representation, and at every call
\* of the combination function self.funcs holds what obj stored.
C14_Original ==
    [][lastCall'.op = "sens" =>
          \A r \in Ranks :
              /\ funcs'[r] = funcs[r]
              /\ \A n \in 1 .. Len(log'[r]) :
                    log'[r][n].stored = funcs[r].d]_vars

\* C15 (as stated): every call of the combination function, in obj and in
\* sens, is handed a mapping whose keys are exactly the input keys.
C15_Original ==
    \A r \in Ranks :
        \A n \in 1 .. Len(log[r]) :
            log[r][n].op = "userObjCon" =>
                DOMAIN log[r][n].arg = keySets[r].input

\* The components of the mapping d that carry an imaginary part
Stepped(d) ==
    {<<k, i>> \in FuncKeys \X (1 .. (MaxComps + 1)) :
        k \in DOMAIN d /\ i \in DOMAIN d[k].v /\ d[k].v[i][2] # 0}
\* The components of the input keys of rank r
InputComps(r) ==
    {<<k, i>> \in FuncKeys \X (1 .. (MaxComps + 1)) :
        k \in keySets[r].input /\ i \in DOMAIN funcs[r].d[k].v}

\* C16: in a sens call every call of the combination function sees exactly
\* one component of one input key with the imaginary step, once, and every
\* other component of every key with no imaginary part and the real part
\* obj stored; every component of every input key has its call, and when
\* the call returns no imaginary part is left.
C16_OnePerturbationAtATime ==
    SensReturned =>
        \A r \in Ranks :
            /\ Len(log[r]) = Cardinality(InputComps(r))
            /\ \A n \in 1 .. Len(log[r]) :
                LET arg == log[r][n].arg
                IN  /\ Cardinality(Stepped(arg)) = 1
                    /\ Stepped(arg) \subseteq InputComps(r)
                    /\ \A c \in Stepped(arg) : arg[c[1]].v[c[2]][2] = 1
                    /\ \A k \in DOMAIN arg : \A i \in DOMAIN arg[k].v :
                            arg[k].v[i][1] =
                                Functional(k, Len(arg[k].v)).v[i][1]
                    /\ \A m \in 1 .. Len(log[r]) :
                            m # n => Stepped(log[r][m].arg) # Stepped(arg)
            /\ Stepped(funcs[r].d) = {}

C16_Witness ==
    /\ SensReturned
    /\ keySets[0].input = {"a", "b"}
    /\ Len(log[0]) = 3
    /\ Stepped(log[0][1].arg) = {<<"a", 1>>}
    /\ Stepped(log[0][2].arg) = {<<"b", 1>>}
    /\ Stepped(log[0][3].arg) = {<<"b", 2>>}

\* The nonlinear constraints the optimisation problem declares
NonlinearNames ==
    {c \in DOMAIN optProb.constraints : ~optProb.constraints[c].linear}

\* C17: once obj has returned, inputKeys is the functional names without the
\* nonlinear-constraint names, outputKeys the nonlinear-constraint names
\* without the functional names, passThroughKeys what they share; the three
\* are pairwise disjoint, inputKeys and passThroughKeys make up the keys of
\* the ownership mapping, outputKeys and passThroughKeys the nonlinear
\* constraints, and no linear constraint is in any of them.
C17_KeySetsPartition ==
    ObjReturned =>
        \A r \in Ranks :
            LET names == DOMAIN funcs[r].d
                ks == keySets[r]
            IN  /\ ks.set
                /\ ks.input = names \ NonlinearNames
                /\ ks.output = NonlinearNames \ names
                /\ ks.pass = names \cap NonlinearNames
                /\ ks.input \cap ks.output = {}
                /\ ks.input \cap ks.pass = {}
                /\ ks.output \cap ks.pass = {}
                /\ ks.input \cup ks.pass = DOMAIN commPattern[r].owner
                /\ ks.output \cup ks.pass = NonlinearNames
                /\ \A c \in DOMAIN optProb.constraints :
                        optProb.constraints[c].linear =>
                            c \notin ks.input \cup ks.output \cup ks.pass

C17_Witness ==
    /\ ObjReturned
    /\ keySets[0].input = {"b"}
    /\ keySets[0].output = {"c"}
    /\ keySets[0].pass = {"a"}
    /\ "lin" \in DOMAIN optProb.constraints

\* The block b has m rows of n entries
Sized(b, m, n) ==
    /\ DOMAIN b = 1 .. m
    /\ \A c \in 1 .. m : DOMAIN b[c] = 1 .. n

\* C18 (as stated): every constraint of the gradient sens returns, output
\* key or pass-through key, has blocks only for the design-variable blocks
\* of its wrt list.
C18_Original ==
    SensReturned =>
        \A r \in Ranks :
            \A c \in DOMAIN ret[r].con :
                DOMAIN ret[r].con[c] \subseteq optProb.constraints[c].wrt

\* C18: the objective gradient sens returns has one block for each declared
\* design-variable block and no other, as wide as the block; the constraint
\* gradient has an entry for each output key and each pass-through key and
\* no other; an output key has one block for each design-variable block of
\* its wrt list and no other, sized (constraint count, block width); a
\* pass-through key has the blocks of the unified sensitivity of that key,
\* whichever they are.
C18_BlocksAsDeclared ==
    SensReturned =>
        \A r \in Ranks :
            /\ DOMAIN ret[r].obj = optProb.variables
            /\ \A dv \in optProb.variables :
                    DOMAIN ret[r].obj[dv] = 1 .. Ndvs(dv)
            /\ DOMAIN ret[r].con = keySets[r].output \cup keySets[r].pass
            /\ \A o \in keySets[r].output :
                /\ DOMAIN ret[r].con[o] = optProb.constraints[o].wrt
                /\ \A dv \in optProb.constraints[o].wrt :
                        Sized(ret[r].con[o][dv],
                              optProb.constraints[o].ncon, Ndvs(dv))
            /\ \A p \in keySets[r].pass :
                    DOMAIN ret[r].con[p] = DOMAIN allFuncs[r][p]

C18_Witness ==
    /\ SensReturned
    /\ optProb.name = "p2"
    /\ keySets[0].input = {"a", "b"}
    /\ keySets[0].output = {"c"}
    /\ DOMAIN allFuncs[0]["a"] = {"x", "y"}
    /\ DOMAIN ret[0].con["c"] = {"x"}
    /\ Len(ret[0].con["c"]["x"]) = 2
    /\ ret[0].con["c"]["x"][1][1] # 0

\* The input keys of rank r whose unified Jacobian has the block dv, in the
\* order of the keys
Contributors(r, dv) ==
    SelectSeq(KeyOrder, LAMBDA k :
        k \in keySets[r].input /\ dv \in DOMAIN allFuncs[r][k])

\* Entry j of what the keys ks add to a block of dv when the derivative of
\* the result with respect to component i of key k is Coef(..., off)
ChainSum(r, ks, dv, j, off) ==
    SumSeq([n \in 1 .. Len(ks) |->
        SumSeq([i \in 1 .. Len(funcs[r].d[ks[n]].v) |->
            Coef(userObjCon, ks[n], i, off) * allFuncs[r][ks[n]][dv][i][j]])])

\* C19: in the gradients sens returns, a block of the objective or of an
\* output key is the sum of the chain-rule terms of the input keys whose
\* Jacobian has that block and of no other key; a key whose Jacobian lacks
\* the block adds nothing and stops nothing, and a block no Jacobian has is
\* all zero.
C19_AbsentBlockAddsNothing ==
    SensReturned =>
        \A r \in Ranks :
            /\ \A dv \in DOMAIN ret[r].obj : \A j \in DOMAIN ret[r].obj[dv] :
                /\ ret[r].obj[dv][j] =
                        ChainSum(r, Contributors(r, dv), dv, j, 0)
                /\ Contributors(r, dv) = <<>> => ret[r].obj[dv][j] = 0
            /\ \A o \in keySets[r].output : \A dv \in DOMAIN ret[r].con[o] :
                \A c \in DOMAIN ret[r].con[o][dv] :
                    \A j \in DOMAIN ret[r].con[o][dv][c] :
                        /\ ret[r].con[o][dv][c][j] =
                                ChainSum(r, Contributors(r, dv), dv, j,
                                         ConOff(o, c))
                        /\ Contributors(r, dv) = <<>> =>
                                ret[r].con[o][dv][c][j] = 0

C19_Witness ==
    /\ SensReturned
    /\ keySets[0].input = {"a", "b"}
    /\ keySets[0].output = {"c"}
    /\ DOMAIN allFuncs[0]["a"] = {"x", "z"}
    /\ DOMAIN allFuncs[0]["b"] = {}
    /\ ret[0].obj["x"][1] # 0
    /\ \A j \in DOMAIN ret[0].obj["y"] : ret[0].obj["y"][j] = 0

\* C20: the entry of a pass-through key in the constraint gradient sens
\* returns is the unified sensitivity of that key as the broadcasts left
\* it, whatever the combination function and whatever the Jacobians of the
\* input keys.
C20_PassThroughUnchanged ==
    SensReturned =>
        \A r \in Ranks : \A p \in keySets[r].pass :
            /\ p \in DOMAIN ret[r].con
            /\ ret[r].con[p] = allFuncs[r][p]

C20_Witness ==
    /\ SensReturned
    /\ keySets[0].pass = {"a"}
    /\ keySets[0].input = {"b"}
    /\ DOMAIN allFuncs[0]["a"] = {"x", "y"}
    /\ DOMAIN allFuncs[0]["b"] = {"x", "y"}
    /\ userObjCon = "weighted"
    /\ ret[0].con["a"] = allFuncs[0]["a"]
    /\ ret[0].con["c"]["x"][1][1] # 0

\* ------------------------------------------------------ the later claims
\* The stored value of the scalar functional k on rank r
Stored(r, k) == funcs[r].d[k].v[1][1]

\* Entry j of c times the block dv of the Jacobian of key k, zero when the
\* Jacobian has no such block
Term(r, c, k, dv, j) ==
    IF dv \in DOMAIN allFuncs[r][k] THEN c * allFuncs[r][k][dv][1][j] ELSE 0

\* C21: with the combination function (a + b, {c: a * b}) on two scalar
\* functionals, obj returns the objective a + b and the constraint a * b,
\* 7 and 12 for a = 3 and b = 4; the gradient of c sens returns is b times
\* the Jacobian of a plus a times the Jacobian of b, 4 times and 3 times for
\* a = 3 and b = 4, and the gradient of the objective is the sum of the two
\* Jacobians.
C21_ProductRule ==
    /\ ObjReturned =>
        \A r \in Ranks :
            /\ ret[r].obj = Num(Stored(r, "a") + Stored(r, "b"), 0)
            /\ ret[r].con["c"] = <<Num(Stored(r, "a") * Stored(r, "b"), 0)>>
            /\ (Stored(r, "a") = 3 /\ Stored(r, "b") = 4) =>
                    /\ ret[r].obj = Num(7, 0)
                    /\ ret[r].con["c"] = <<Num(12, 0)>>
    /\ SensReturned =>
        \A r \in Ranks : \A dv \in {"x", "y"} : \A j \in 1 .. Ndvs(dv) :
            /\ ret[r].con["c"][dv][1][j] =
                    Term(r, Stored(r, "b"), "a", dv, j)
                        + Term(r, Stored(r, "a"), "b", dv, j)
            /\ ret[r].obj[dv][j] =
                    Term(r, 1, "a", dv, j) + Term(r, 1, "b", dv, j)
            /\ (Stored(r, "a") = 3 /\ Stored(r, "b") = 4) =>
                    ret[r].con["c"][dv][1][j] =
                        Term(r, 4, "a", dv, j) + Term(r, 3, "b", dv, j)

C21_Witness ==
    /\ SensReturned
    /\ Stored(0, "a") = 3 /\ Stored(0, "b") = 4
    /\ DOMAIN allFuncs[0]["a"] = {"x", "y"}
    /\ DOMAIN allFuncs[0]["b"] = {"x", "y"}
    /\ ret[0].con["c"]["x"][1][1] =
            4 * allFuncs[0]["a"]["x"][1][1] + 3 * allFuncs[0]["b"]["x"][1][1]
    /\ ret[0].obj["x"][1] =
            allFuncs[0]["a"]["x"][1][1] + allFuncs[0]["b"]["x"][1][1]

\* A callback returned fail = true
AnyFail(outs) ==
    \E i \in 1 .. Len(outs) :
        ~outs[i].none /\ "fail" \in DOMAIN outs[i].d /\ outs[i].d["fail"]

\* C22 (as stated): when a callback a process runs in an obj call returns
\* fail = true, whichever of the callbacks of its set it is and whatever the
\* others return, the failure indicator of that process, which obj reduces
\* over the processes and returns, is true.
C22_Original ==
    [][\A r \in Ranks :
          (Leaves(r) /\ lastCall'.op = "obj") =>
              \A outs \in Outs("obj", r, x') :
                  (AnyFail(outs) /\ ~AnyNone(outs) /\ ObjLocal(r, x', outs))
                      => res'[r]["fail"]]_vars

\* The errors a process detects on its own: a callback that returned None
\* (lines 521, 597) and a key it owns and did not produce (lines 550, 609)
Fatal == {"AssertionError", "KeyError"}
Blocked(r) ==
    /\ r \in Ranks
    /\ pc[r] \in Waiting
    /\ \E q \in Ranks : pc[q] \in Fatal

\* C23 (as stated): a process that waits in a collective of a call in which
\* another process has raised on its own, for a callback that returned no
\* value or for a key it owns and did not produce, eventually leaves the
\* collective.
C23_Original ==
    \A r \in 0 .. EvalProcs - 1 : Blocked(r) ~> ~Blocked(r)

\* C23: a process that waits in a collective of a call in which another
\* process has raised on its own stays in that collective in every step
\* that follows: the call returns nothing on any process, and the process
\* that raised stays out of the collectives of the call.
C23_FatalOnSomeBlocksTheRest ==
    [][(\E q \in Ranks : pc[q] \in Fatal) =>
            /\ \A r \in Ranks : pc[r] \in Waiting \cup Fatal => pc'[r] = pc[r]
            /\ \A r \in Ranks : ~ret'[r].set
            /\ lastCall' = lastCall]_vars

C23_Witness ==
    /\ gsize = 2
    /\ lastCall.op = "sens"
    /\ pc[1] = "KeyError"
    /\ pc[0] = "inBcast"
    /\ commPattern[0].built

\* The non-linear constraints of problem p
NonlinearOf(p) == {c \in DOMAIN p.constraints : ~p.constraints[c].linear}

\* C24: a setOptProb step sets the declared non-linear constraint names to
\* exactly the non-linear constraints of the new problem, clears the stored
\* functionals and the three key sets of every process, and leaves the
\* ownership mapping, the partition flags and the registered callbacks as
\* they were; hence key sets a process holds were always derived, with the
\* functionals it holds, for the problem of the last setOptProb, and a
\* sens call returns gradients only when it found such key sets.
C24_RebindingClearsTheCache ==
    [][/\ lastCall'.op = "setOptProb" =>
            /\ conKeys' = [set |-> TRUE, keys |-> NonlinearOf(optProb')]
            /\ \A r \in Ranks : funcs'[r] = NoFuncs /\ keySets'[r] = NoKeys
            /\ commPattern' = commPattern
            /\ setFlags' = setFlags
            /\ groupFlags' = groupFlags
            /\ pSet' = pSet
       /\ \A r \in Ranks :
            /\ keySets'[r].set =>
                /\ funcs'[r].set
                /\ conKeys'.set
                /\ conKeys'.keys = NonlinearOf(optProb')
                /\ keySets'[r].input = DOMAIN funcs'[r].d \ conKeys'.keys
                /\ keySets'[r].output = conKeys'.keys \ DOMAIN funcs'[r].d
                /\ keySets'[r].pass = DOMAIN funcs'[r].d \cap conKeys'.keys
            /\ (lastCall'.op = "sens" /\ ret'[r].set) =>
                    funcs'[r].set /\ keySets'[r].set]_vars

\* A sens call that follows an obj call under problem 'p' and the rebinding
\* to 'q' has raised
C24_Witness ==
    /\ lastCall.op = "sens"
    /\ optProb.name = "q"
    /\ conKeys.keys = {"b"}
    /\ \A r \in Ranks : commPattern[r].built /\ pc[r] = "TypeError"
    /\ \A r \in Ranks : ~funcs[r].set /\ ~keySets[r].set /\ ~ret[r].set
    /\ "a" \in DOMAIN commPattern[0].owner

\* The step is a registration of func for setName
Registers(setName, func) ==
    \/ SetProcSetObjFunc(setName, func)
    \/ SetProcSetSensFunc(setName, func)
    \/ AddProcSetObjFunc(setName, func)
    \/ AddProcSetSensFunc(setName, func)

\* C25 (as stated): a registration succeeds when the name was declared with
\* addProcessorSet, with nMembers == 0 or not, and the handle is a function;
\* otherwise it raises and leaves the registered callbacks as they were.
C25_Original ==
    [][\A setName \in RegNames, func \in FuncHandles :
          Registers(setName, func) =>
              /\ (setName \in Declared /\ IsFunction(func)) => raised' = ""
              /\ ~(setName \in Declared /\ IsFunction(func)) =>
                    raised' # "" /\ pSet' = pSet]_vars

====
